---- MODULE Spec2Model ----
(***************************************************************************)
(* A model of jobbot's harvesting and consolidation layer:                 *)
(*   - run_crawlers / _run_source (src/jobbot.py): the sequential, tier    *)
(*     ordered driver with the persisted zero-yield breaker;               *)
(*   - _fetch_details_parallel (src/jobbot.py): the detail fan-out;        *)
(*   - deduplicate_jobs (src/core/dedup.py) behind the normalization loop; *)
(*   - request_with_retry (src/crawlers/common.py) and web_search          *)
(*     (src/core/searcher.py): the network calls and their retries;        *)
(*   - fetch_list of src/crawlers/linkareer.py and src/crawlers/breezyhr.py *)
(*     with their day-scoped breaker files, and of src/crawlers/catch.py;  *)
(*   - upsert_jobs (src/core/db.py) on the jobs table;                     *)
(*   - concurrent threads in _get_session and _cleanup_old_debug_dirs      *)
(*     (src/crawlers/common.py).                                           *)
(***************************************************************************)
EXTENDS Integers, Sequences, FiniteSets, TLC

VARIABLES
    cfg,              \* the loaded config.yaml: crawlers.<name>.{tier,enabled}, collection.source_health
    health_file,      \* content of data/source_health.json: source -> consecutive_zero (NoEntry: no record)
    health_disk,      \* what is at the path of the health file: "missing", "unreadable",
                      \* "invalid" (not JSON), "not_object" or "object"
    source_health,    \* run_crawlers' local dict of the same shape
    pc,               \* position of the driver: "idle", "loop", "running", "done", "aborted"
    ordered_sources,  \* run_crawlers' local list, sorted by tier
    idx,              \* position of the for loop in ordered_sources
    results,          \* run_crawlers' local list of Jobs
    running,          \* sources whose _run_source call has begun and not yet returned
    called,           \* sources whose adapter module was touched in this run
    attempts,         \* this run's _run_source calls in order: [source, raised, jobs]
    last,             \* how the latest _run_source call ended: [source, way, loaded]
    start_file,       \* health_file as it was when this run started
    streak,           \* consecutive completed attempts of a source with zero Postings (capped)
    start_streak,     \* streak as it was when this run started
    \* _fetch_details_parallel
    d_pc,             \* "off", "called", "collect" (the as_completed loop), "returned"
    has_fetch_detail, \* hasattr(module, "fetch_detail")
    list_items,       \* the argument list_items: a list of dicts
    workers,          \* int(opts.get("workers", ...))
    max_items,        \* int(opts.get("max_items", ...))
    task,             \* per submitted candidate: [st: "queued" | "running" | "done" | "collected", out]
    detailed,         \* the local list detailed, each record tagged with its candidate
    retval,           \* the list returned
    \* the normalization loop of _run_source and the hand-over to deduplicate_jobs in main
    n_pc,             \* "off", "loop" (the for loop over raw_jobs), "collected", "dedup"
    n_source,         \* source_name
    raw_jobs,         \* what the adapter handed over: a list of raw records
    raw_idx,          \* number of raw records the loop has been through
    source_jobs,      \* _run_source's local list jobs
    collected,        \* main's collected, the list run_crawlers returned
    \* deduplicate_jobs
    dd_pc,            \* "off", "loop" (the for loop over jobs), "returned", "raised"
    dedup_jobs,       \* the argument jobs
    dcfg,             \* the dedup section of the config, thresholds in hundredths
    job_idx,          \* number of jobs the loop has been through
    seen_urls,        \* the four sets of keys of accepted Postings
    seen_title_company,
    seen_desc,
    canonical_keys,
    unique,           \* the list of accepted Postings, returned at the end
    verdicts,         \* per job gone through: 0 if accepted, else the number of the rejecting rule
    \* request_with_retry
    h_pc,             \* "off", "send" (inside session.request), "dump", "returned", "raised"
    h_url,            \* the argument url
    h_method,         \* the method of the request being sent (the argument, until a redirect)
    h_retries,        \* the argument retries
    h_retry,          \* the Retry object of the request being sent: the counts left
    h_attempts,       \* per request of this call (the url, then each redirect target followed):
                      \* the times it was sent
    h_last,           \* what the latest request sent ended in
    h_ret,            \* what the call returned: "-" (not yet), "None", "response"
    h_meta,           \* what the call left in _meta: "clear", "error", "status"
    debug_cleaned,    \* whether the debug root is in _DEBUG_CLEANED_DIRS
    \* web_search
    w_pc,             \* "off", "loop" (the for loop over providers), "returned"
    w_retries,        \* the argument retries
    w_providers,      \* the argument providers: per provider whether _provider_url knows it
    w_idx,            \* providers the loop is through with
    w_try,            \* passes of the inner for loop made for the current provider
    w_requests,       \* requests.get calls made for the current provider
    w_resp,           \* resp: 0 for None, else the status of the response kept
    \* fetch_list of linkareer and breezyhr
    today,            \* the calendar day datetime.now() gives, as a number
    breaker_file,     \* per crawler the content of its BREAKER_FILE
    f_pc,             \* "idle", "search", "playwright", "http", "return"
    f_source,         \* the crawler whose fetch_list is running
    render_enabled,   \* render["enabled"]
    circuit_open,     \* circuit_open (linkareer), dns_circuit_open (breezyhr)
    f_urls,           \* whether urls is non-empty
    dns_failed,       \* dns_failed
    f_tried,          \* the acquisition strategies this run has gone into, in order
    f_loaded,         \* the breaker file as the run found it when it looked the circuit up
    \* _run_source, up to the normalization loop
    s_pc,             \* "off", "start", "fetch_list", "details", "crawl", "normalize" (raw_jobs
                      \* is bound), "returned" (an early return []), "raised"
    has_fetch_list,   \* hasattr(module, "fetch_list")
    has_crawl,        \* hasattr(module, "crawl")
    s_calls,          \* the adapter functions the driver thread has called, in order
    \* upsert_jobs on the jobs table
    db_pc,            \* "idle", "loop" (the for loop over rows), "raised"
    table,            \* the rows of jobs: [id, url_hash, tc_hash, url, title, company, created_at]
    committed,        \* the rows as of the last conn.commit()
    db_jobs,          \* the argument jobs
    db_idx,           \* rows the loop is through with
    db_now,           \* the second datetime.now() gave this call
    db_before,        \* history: the table when this call began
    \* threads inside request_with_retry: _get_session, the request, _dump_fail_response
    t_pc,             \* per thread: "idle", "lock" (waiting for _SESSION_LOCK), "get", "create",
                      \* "request", "check" (at the membership test of the clean-up), "add",
                      \* "prune", "done"
    t_retries,        \* per thread the argument retries
    t_session,        \* per thread the Session _get_session returned (0: none yet)
    sessions,         \* _SESSIONS: retry_total -> Session (0: no entry)
    session_lock,     \* the thread holding _SESSION_LOCK (0: free)
    created,          \* history: per retry_total the Sessions ever constructed
    prunes            \* history: the times the pruning walk over the debug root was begun

runVars == <<cfg, health_file, health_disk, source_health, pc, ordered_sources, idx, results,
             running, called, attempts, last, start_file, streak, start_streak>>

detailVars == <<d_pc, has_fetch_detail, list_items, workers, max_items, task, detailed, retval>>

normVars == <<n_pc, n_source, raw_jobs, raw_idx, source_jobs, collected>>

dedupVars == <<dd_pc, dedup_jobs, dcfg, job_idx, seen_urls, seen_title_company, seen_desc,
               canonical_keys, unique, verdicts>>

httpVars == <<h_pc, h_url, h_method, h_retries, h_retry, h_attempts, h_last, h_ret, h_meta,
              debug_cleaned>>

searchVars == <<w_pc, w_retries, w_providers, w_idx, w_try, w_requests, w_resp>>

netVars == <<httpVars, searchVars>>

fetchVars == <<today, breaker_file, f_pc, f_source, render_enabled, circuit_open, f_urls,
               dns_failed, f_tried, f_loaded>>

sourceVars == <<s_pc, has_fetch_list, has_crawl, s_calls>>

dbVars == <<db_pc, table, committed, db_jobs, db_idx, db_now, db_before>>

threadVars == <<t_pc, t_retries, t_session, sessions, session_lock, created, prunes>>

moreVars == <<sourceVars, dbVars, threadVars>>

vars == <<runVars, detailVars, normVars, dedupVars, netVars, fetchVars, moreVars>>

notRunVars == <<detailVars, normVars, dedupVars, netVars, fetchVars, moreVars>>

notDetailVars == <<runVars, normVars, dedupVars, netVars, fetchVars, moreVars>>

notDedupVars == <<runVars, detailVars, normVars, netVars, fetchVars, moreVars>>

notNormVars == <<runVars, detailVars, netVars, fetchVars, moreVars>>

notNetVars == <<runVars, detailVars, normVars, dedupVars, fetchVars, moreVars>>

notFetchVars == <<runVars, detailVars, normVars, dedupVars, netVars, moreVars>>

notSourceVars == <<runVars, normVars, dedupVars, netVars, fetchVars, dbVars, threadVars>>

notDbVars == <<runVars, detailVars, normVars, dedupVars, netVars, fetchVars, sourceVars,
               threadVars>>

notThreadVars == <<runVars, detailVars, normVars, dedupVars, searchVars, fetchVars, sourceVars,
                   dbVars>>

-----------------------------------------------------------------------------
(* Bounds of the model *)

MaxThreshold == 3      \* zero_collect_threshold is drawn from 1..MaxThreshold
MaxRaw == 1            \* an adapter hands at most MaxRaw raw records to normalization
MaxList == 3           \* fetch_list returns at most MaxList candidates
MaxItems == 2          \* max_items is drawn from 0..MaxItems
MaxWorkers == 2        \* workers is drawn from 0..MaxWorkers
MaxThreads == 2        \* threads inside request_with_retry at the same time
MaxRetryArg == 1       \* the argument retries is drawn from -1..MaxRetryArg
MaxBatch == 2          \* upsert_jobs is given at most MaxBatch Postings
MaxNow == 2            \* the seconds datetime.now() goes through during the upserts

(* Program constants *)

DefaultTier == 2       \* opts.get("tier", 2)
DefaultZeroThreshold == 3   \* health_cfg.get("zero_collect_threshold", 3)
NoTier == 0            \* encodes a crawler entry without a "tier" key
NoEntry == -1          \* encodes a source without a record in the health file
NotADictEntry == -2    \* encodes a record that is not a JSON object (a number, null, a list)
BadCountEntry == -3    \* encodes a record whose consecutive_zero int() rejects (null, "x")
NoOpts == -4           \* encodes a source id without a dict under cfg["crawlers"]

-----------------------------------------------------------------------------
(* Configuration: cfg["crawlers"] in insertion order *)

SourceNames == <<"a", "b", "c">>

Sources == {SourceNames[i] : i \in 1..Len(SourceNames)}

ConfigIndex(s) == CHOOSE i \in 1..Len(SourceNames) : SourceNames[i] = s

TierChoices == {NoTier, 1, 3}

\* int(x[1].get("tier", 2))
TierKey(s) == IF cfg.tier[s] = NoTier THEN DefaultTier ELSE cfg.tier[s]

\* sorted(..., key=...) is stable: insert each element after every element whose key is <= its own
\* a sort that is not stable: equal keys end in reverse configuration order
RECURSIVE InsertByTierUnstable(_, _)
InsertByTierUnstable(sorted, s) ==
    IF sorted = <<>> THEN <<s>>
    ELSE IF TierKey(Head(sorted)) < TierKey(s)
         THEN <<Head(sorted)>> \o InsertByTierUnstable(Tail(sorted), s)
         ELSE <<s>> \o sorted

RECURSIVE InsertByTier(_, _)
InsertByTier(sorted, s) ==
    IF sorted = <<>> THEN <<s>>
    ELSE IF TierKey(Head(sorted)) <= TierKey(s)
         THEN <<Head(sorted)>> \o InsertByTier(Tail(sorted), s)
         ELSE <<s>> \o sorted

RECURSIVE SortByTier(_)
SortByTier(seq) ==
    IF seq = <<>> THEN <<>>
    ELSE InsertByTier(SortByTier(SubSeq(seq, 1, Len(seq) - 1)), seq[Len(seq)])

\* the (name, opts) of crawler_cfg.items() with isinstance(opts, dict)
Configured == SelectSeq(SourceNames, LAMBDA s : cfg.tier[s] # NoOpts)

OrderedSources == SortByTier(Configured)

-----------------------------------------------------------------------------
(* The health file *)

\* _load_source_health: the dict of the file; source_health.get(name, {}).get("consecutive_zero", 0)
ConsecutiveZero(health, s) == IF health[s] = NoEntry THEN 0 ELSE health[s]

EmptyHealth == [s \in Sources |-> NoEntry]

\* source_health = _load_source_health(health_file) if health_enabled else {}
LoadSourceHealth ==
    IF cfg.health_enabled /\ health_disk = "object" THEN health_file ELSE EmptyHealth

\* a save that writes only the records of the sources the run attempted
SaveAttemptedOnly ==
    IF cfg.health_enabled
    THEN [s \in Sources |-> IF \E i \in DOMAIN attempts : attempts[i].source = s
                            THEN source_health[s] ELSE NoEntry]
    ELSE health_file

\* if health_enabled: _save_source_health(health_file, source_health)
SaveSourceHealth == IF cfg.health_enabled THEN source_health ELSE health_file

-----------------------------------------------------------------------------
(* _run_source *)

RawKinds == {"ok", "nondict", "nourl", "notitle", "normfail"}

RECURSIVE SeqsUpTo(_, _)
SeqsUpTo(S, n) ==
    IF n = 0 THEN {<<>>}
    ELSE LET shorter == SeqsUpTo(S, n - 1)
         IN shorter \cup {Append(q, x) : q \in {r \in shorter : Len(r) = n - 1}, x \in S}

RawLists == SeqsUpTo(RawKinds, MaxRaw)

\* What the adapter module of a source does in one run
AdapterBehaviours ==
    {[kind |-> k, raws |-> <<>>] :
        k \in {"import_raises", "fetch_list_raises", "fetch_list_nonlist",
               "detail_stage_raises", "crawl_raises", "crawl_not_iterable", "neither"}}
    \cup {[kind |-> k, raws |-> r] : k \in {"fetch_list", "crawl"}, r \in RawLists}

Raises(b) == b.kind \in {"import_raises", "fetch_list_raises", "detail_stage_raises",
                         "crawl_raises", "crawl_not_iterable"}

\* the loop over raw_jobs: a record is kept when it is a dict, normalize_job does not
\* raise, and job.url and job.title are non-empty
RECURSIVE NormalizeAll(_, _, _)
NormalizeAll(s, raws, i) ==
    IF i > Len(raws) THEN <<>>
    ELSE (IF raws[i] = "ok" THEN <<[source |-> s, rid |-> i]>> ELSE <<>>)
         \o NormalizeAll(s, raws, i + 1)

\* the list of Jobs _run_source returns when it returns
RunSourceJobs(s, b) ==
    IF b.kind \in {"fetch_list_nonlist", "neither"} THEN <<>>
    ELSE NormalizeAll(s, b.raws, 1)

\* how a call that yields no Posting came to yield none
ZeroWay(b) ==
    IF b.kind \in {"fetch_list", "crawl"}
    THEN (IF b.raws = <<>> THEN "empty" ELSE "all_dropped")
    ELSE b.kind

-----------------------------------------------------------------------------
(* run_crawlers *)

CurrentSource == ordered_sources[idx]

\* line 158 raises: source_health.get(name, {}) has no get, or int() rejects
\* the consecutive_zero of the record
HealthGuardRaises(s) ==
    cfg.health_enabled /\ source_health[s] \in {NotADictEntry, BadCountEntry}

\* a guard that trips one run late
SkippedByHealthLate(s) ==
    cfg.health_enabled /\ ConsecutiveZero(source_health, s) > cfg.zero_threshold

\* lines 157-166: the health guard
SkippedByHealth(s) ==
    cfg.health_enabled /\ ConsecutiveZero(source_health, s) >= cfg.zero_threshold

\* a success that leaves the counter as it was
HealthAfterReturnNoReset(s, jobs) ==
    IF cfg.health_enabled
    THEN [source_health EXCEPT ![s] = IF jobs # <<>> THEN ConsecutiveZero(source_health, s)
                                      ELSE ConsecutiveZero(source_health, s) + 1]
    ELSE source_health

\* lines 171-176
HealthAfterReturn(s, jobs) ==
    IF cfg.health_enabled
    THEN [source_health EXCEPT ![s] = IF jobs # <<>> THEN 0 ELSE ConsecutiveZero(source_health, s) + 1]
    ELSE source_health

\* an except clause that forgets the health update
HealthAfterExceptionLost(s) == source_health

\* an except clause that counts the failure twice
HealthAfterExceptionTwice(s) ==
    IF cfg.health_enabled
    THEN [source_health EXCEPT ![s] = ConsecutiveZero(source_health, s) + 2]
    ELSE source_health

\* lines 177-184
HealthAfterException(s) ==
    IF cfg.health_enabled
    THEN [source_health EXCEPT ![s] = ConsecutiveZero(source_health, s) + 1]
    ELSE source_health

\* an except clause that re-raises: run_crawlers ends with the exception
AfterExceptionAbort == "aborted"

\* the except clause of the loop body logs and lets the loop go on
AfterException == "loop"

\* the history variable streak counts what the health tracker observes; it stops at StreakCap
StreakCap == MaxThreshold + 1

StreakAfter(s, zero) ==
    IF ~cfg.health_enabled THEN streak
    ELSE [streak EXCEPT ![s] = IF ~zero THEN 0 ELSE IF @ < StreakCap THEN @ + 1 ELSE @]

StartRun ==
    /\ UNCHANGED notRunVars
    /\ pc \in {"idle", "done"}
    /\ pc' = "loop"
    /\ source_health' = LoadSourceHealth
    /\ ordered_sources' = OrderedSources
    /\ idx' = 1
    /\ results' = <<>>
    /\ running' = {}
    /\ called' = {}
    /\ attempts' = <<>>
    /\ last' = [source |-> "", way |-> "", loaded |-> 0]
    /\ start_file' = health_file
    /\ start_streak' = streak
    /\ UNCHANGED <<cfg, health_file, health_disk, streak>>

SkipDisabled ==
    /\ UNCHANGED notRunVars
    /\ pc = "loop"
    /\ idx <= Len(ordered_sources)
    /\ ~cfg.enabled[CurrentSource]
    /\ idx' = idx + 1
    /\ UNCHANGED <<cfg, health_file, health_disk, source_health, pc, ordered_sources, results,
                   running, called, attempts, last, start_file, streak, start_streak>>

SkipByHealth ==
    /\ UNCHANGED notRunVars
    /\ pc = "loop"
    /\ idx <= Len(ordered_sources)
    /\ cfg.enabled[CurrentSource]
    /\ SkippedByHealth(CurrentSource)
    /\ idx' = idx + 1
    /\ UNCHANGED <<cfg, health_file, health_disk, source_health, pc, ordered_sources, results,
                   running, called, attempts, last, start_file, streak, start_streak>>

BeginSource ==
    /\ UNCHANGED notRunVars
    /\ pc = "loop"
    /\ idx <= Len(ordered_sources)
    /\ cfg.enabled[CurrentSource]
    /\ ~HealthGuardRaises(CurrentSource)
    /\ ~SkippedByHealth(CurrentSource)
    /\ pc' = "running"
    /\ running' = running \cup {CurrentSource}
    /\ called' = called \cup {CurrentSource}
    /\ UNCHANGED <<cfg, health_file, health_disk, source_health, ordered_sources, idx, results,
                   attempts, last, start_file, streak, start_streak>>

SourceReturns ==
    /\ UNCHANGED notRunVars
    /\ pc = "running"
    /\ \E b \in AdapterBehaviours :
        /\ ~Raises(b)
        /\ LET s == CurrentSource
               jobs == RunSourceJobs(s, b)
           IN /\ results' = results \o jobs
              /\ source_health' = HealthAfterReturn(s, jobs)
              /\ attempts' = Append(attempts, [source |-> s, raised |-> FALSE, jobs |-> jobs])
              /\ last' = [source |-> s,
                          way |-> IF jobs # <<>> THEN "yield" ELSE ZeroWay(b),
                          loaded |-> ConsecutiveZero(source_health, s)]
              /\ streak' = StreakAfter(s, jobs = <<>>)
              /\ running' = running \ {s}
    /\ pc' = "loop"
    /\ idx' = idx + 1
    /\ UNCHANGED <<cfg, health_file, health_disk, ordered_sources, called, start_file, start_streak>>

SourceRaises ==
    /\ UNCHANGED notRunVars
    /\ pc = "running"
    /\ \E b \in AdapterBehaviours :
        /\ Raises(b)
        /\ LET s == CurrentSource
           IN /\ source_health' = HealthAfterException(s)
              /\ attempts' = Append(attempts, [source |-> s, raised |-> TRUE, jobs |-> <<>>])
              /\ last' = [source |-> s, way |-> ZeroWay(b),
                          loaded |-> ConsecutiveZero(source_health, s)]
              /\ streak' = StreakAfter(s, TRUE)
              /\ running' = running \ {s}
    /\ pc' = AfterException
    /\ idx' = idx + 1
    /\ UNCHANGED <<cfg, health_file, health_disk, ordered_sources, results, called, start_file, start_streak>>

FinishRun ==
    /\ UNCHANGED notRunVars
    /\ pc = "loop"
    /\ idx > Len(ordered_sources)
    /\ health_file' = SaveSourceHealth
    /\ health_disk' = IF cfg.health_enabled /\ health_disk # "unreadable"
                      THEN "object" ELSE health_disk
    /\ pc' = "done"
    /\ UNCHANGED <<cfg, source_health, ordered_sources, idx, results, running, called,
                   attempts, last, start_file, streak, start_streak>>

-----------------------------------------------------------------------------
(* _fetch_details_parallel *)

\* a record (a Python dict) is a function from some of the keys to values
Keys == {"url", "description"}

\* list-stage records carry "l" values, detail records carry "d" values
ListRecords == {[k \in K |-> "l"] : K \in {{"url"}, {"url", "description"}}}

DetailRecords == {[k \in K |-> "d"] : K \in SUBSET Keys}

EmptyRecord == [k \in {} |-> "d"]

\* what one fetch_detail call does: it raises, or returns None, a truthy non-dict, or a dict
DetailOutcomes ==
    {[kind |-> k, val |-> EmptyRecord] : k \in {"raise", "none", "nondict"}}
    \cup {[kind |-> "dict", val |-> d] : d \in DetailRecords}

NoOutcome == [kind |-> "pending", val |-> EmptyRecord]

Min(a, b) == IF a < b THEN a ELSE b

Max(a, b) == IF a > b THEN a ELSE b

\* selected = list_items[:max_items]   (max_items >= 0)
Selected == SubSeq(list_items, 1, Min(Len(list_items), max_items))

\* a pool with a thread for every candidate of the list
PoolSizePerCandidate == Max(1, Len(list_items))

\* ThreadPoolExecutor(max_workers=max(1, workers))
PoolSize == Max(1, workers)

\* a merge in which the list record wins on conflict
MergeListWins(base, detail) ==
    [k \in DOMAIN base \cup DOMAIN detail |-> IF k \in DOMAIN base THEN base[k] ELSE detail[k]]

\* merged = dict(base); merged.update(detail)
Merge(base, detail) ==
    [k \in DOMAIN base \cup DOMAIN detail |-> IF k \in DOMAIN detail THEN detail[k] ELSE base[k]]

\* detail = fut.result() or {}; if not isinstance(detail, dict): detail = {}
DetailDict(out) == IF out.kind = "dict" THEN out.val ELSE EmptyRecord

\* an except clause that logs and appends nothing
AfterDetailFailureDropped(i) == detailed

\* except Exception: detailed.append(base)
AfterDetailFailure(i) == Append(detailed, [cand |-> i, rec |-> list_items[i]])

\* a merge done in place: base.update(detail)
ItemsAfterMergeInPlace(i, out) ==
    [list_items EXCEPT ![i] = Merge(list_items[i], DetailDict(out))]

\* merged = dict(base) copies: the list record stays as it is
ItemsAfterMerge(i, out) == list_items

\* the try body: detailed.append(merged)
AfterDetailResult(i, out) ==
    Append(detailed, [cand |-> i, rec |-> Merge(list_items[i], DetailDict(out))])

RECURSIVE Records(_, _)
Records(tagged, i) ==
    IF i > Len(tagged) THEN <<>> ELSE <<tagged[i].rec>> \o Records(tagged, i + 1)

\* if not hasattr(module, "fetch_detail"): return list_items
ReturnListItems ==
    /\ d_pc = "called"
    /\ ~has_fetch_detail
    /\ retval' = list_items
    /\ d_pc' = "returned"
    /\ UNCHANGED <<has_fetch_detail, list_items, workers, max_items, task, detailed>>
    /\ UNCHANGED notDetailVars

\* futs = {ex.submit(module.fetch_detail, item, ...): item for item in selected}
SubmitAll ==
    /\ d_pc = "called"
    /\ has_fetch_detail
    /\ task' = [i \in 1..Len(Selected) |-> [st |-> "queued", out |-> NoOutcome]]
    /\ d_pc' = "collect"
    /\ UNCHANGED <<has_fetch_detail, list_items, workers, max_items, detailed, retval>>
    /\ UNCHANGED notDetailVars

\* a pool thread takes the oldest queued work item
WorkerStart ==
    /\ d_pc = "collect"
    /\ \E i \in DOMAIN task :
        /\ task[i].st = "queued"
        /\ \A j \in 1..(i - 1) : task[j].st # "queued"
        /\ Cardinality({j \in DOMAIN task : task[j].st = "running"}) < PoolSize
        /\ task' = [task EXCEPT ![i].st = "running"]
    /\ UNCHANGED <<d_pc, has_fetch_detail, list_items, workers, max_items, detailed, retval>>
    /\ UNCHANGED notDetailVars

\* module.fetch_detail(item, opts, cfg, logger) ends, one way or another
WorkerFinish ==
    /\ d_pc = "collect"
    /\ \E i \in DOMAIN task, out \in DetailOutcomes :
        /\ task[i].st = "running"
        /\ task' = [task EXCEPT ![i] = [st |-> "done", out |-> out]]
    /\ UNCHANGED <<d_pc, has_fetch_detail, list_items, workers, max_items, detailed, retval>>
    /\ UNCHANGED notDetailVars

\* one iteration of "for fut in as_completed(futs)": any finished future not yet seen
Collect ==
    /\ d_pc = "collect"
    /\ \E i \in DOMAIN task :
        /\ task[i].st = "done"
        /\ task' = [task EXCEPT ![i].st = "collected"]
        /\ detailed' = IF task[i].out.kind = "raise"
                       THEN AfterDetailFailure(i)
                       ELSE AfterDetailResult(i, task[i].out)
        /\ list_items' = IF task[i].out.kind = "raise"
                         THEN list_items
                         ELSE ItemsAfterMerge(i, task[i].out)
    /\ UNCHANGED <<d_pc, has_fetch_detail, workers, max_items, retval>>
    /\ UNCHANGED notDetailVars

\* the loop has seen every future and the with block has joined the pool
ReturnDetailed ==
    /\ d_pc = "collect"
    /\ \A i \in DOMAIN task : task[i].st = "collected"
    /\ retval' = Records(detailed, 1)
    /\ d_pc' = "returned"
    /\ UNCHANGED <<has_fetch_detail, list_items, workers, max_items, task, detailed>>
    /\ UNCHANGED notDetailVars

-----------------------------------------------------------------------------
(* Text: a Python str is modelled as a sequence of characters, each written as a   *)
(* string: "a", " ", "\t", and for a Hangul syllable its romanisation ("JU", "SIK", *)
(* "HOE", "SA", "MI", "SANG").  On the characters used here                         *)
(* unicodedata.normalize("NFKC", .) changes nothing.                                *)

LowerLetters ==
    <<"a", "b", "c", "d", "e", "f", "g", "h", "i", "j", "k", "l", "m",
      "n", "o", "p", "q", "r", "s", "t", "u", "v", "w", "x", "y", "z">>

UpperLetters ==
    <<"A", "B", "C", "D", "E", "F", "G", "H", "I", "J", "K", "L", "M",
      "N", "O", "P", "Q", "R", "S", "T", "U", "V", "W", "X", "Y", "Z">>

Range(f) == {f[i] : i \in DOMAIN f}

\* str.lower() of one character
Lower(c) ==
    IF c \in Range(UpperLetters)
    THEN LowerLetters[CHOOSE i \in DOMAIN UpperLetters : UpperLetters[i] = c]
    ELSE c

\* the characters \s matches and str.strip() strips
IsSpace(c) == c \in {" ", "\t"}

MapLower(t) == [i \in 1..Len(t) |-> Lower(t[i])]

RECURSIVE LStrip(_)
LStrip(t) == IF t # <<>> /\ IsSpace(Head(t)) THEN LStrip(Tail(t)) ELSE t

RECURSIVE RStrip(_)
RStrip(t) == IF t # <<>> /\ IsSpace(t[Len(t)]) THEN RStrip(SubSeq(t, 1, Len(t) - 1)) ELSE t

\* str.strip()
Strip(t) == RStrip(LStrip(t))

\* SPACE_RE.sub(" ", value): every run of whitespace becomes one space
RECURSIVE CollapseSpaces(_)
CollapseSpaces(t) ==
    IF t = <<>> THEN <<>>
    ELSE IF IsSpace(Head(t)) THEN <<" ">> \o CollapseSpaces(LStrip(t))
         ELSE <<Head(t)>> \o CollapseSpaces(Tail(t))

\* core.normalize.normalize_text
NormalizeText(t) == CollapseSpaces(Strip(MapLower(t)))

\* value[:n]
Take(t, n) == SubSeq(t, 1, Min(Len(t), n))

\* one element of a regular expression: a character class, optional (x?) or not
Lit(c) == [ch |-> {c}, opt |-> FALSE]

Opt(S) == [ch |-> S, opt |-> TRUE]

\* r"\(JU\)|JU SIK HOE SA|inc\.?|corp\.?|co\.?\,?\s?ltd\.?", the alternatives in the
\* order re tries them
SuffixPatterns ==
    << <<Lit("("), Lit("JU"), Lit(")")>>,
       <<Lit("JU"), Lit("SIK"), Lit("HOE"), Lit("SA")>>,
       <<Lit("i"), Lit("n"), Lit("c"), Opt({"."})>>,
       <<Lit("c"), Lit("o"), Lit("r"), Lit("p"), Opt({"."})>>,
       <<Lit("c"), Lit("o"), Opt({"."}), Opt({","}), Opt({" ", "\t"}),
         Lit("l"), Lit("t"), Lit("d"), Opt({"."})>> >>

\* the position after a match of pat[pi..] at text[ti..], 0 if there is none;
\* an optional element is taken first (greedy) and given back if the rest fails
RECURSIVE MatchEnd(_, _, _, _)
MatchEnd(pat, pi, t, ti) ==
    IF pi > Len(pat) THEN ti
    ELSE LET e == pat[pi]
             taken == IF ti <= Len(t) /\ t[ti] \in e.ch
                      THEN MatchEnd(pat, pi + 1, t, ti + 1) ELSE 0
         IN IF taken # 0 THEN taken
            ELSE IF e.opt THEN MatchEnd(pat, pi + 1, t, ti) ELSE 0

\* the first alternative that matches at ti decides
RECURSIVE SuffixEnd(_, _, _)
SuffixEnd(t, ti, alt) ==
    IF alt > Len(SuffixPatterns) THEN 0
    ELSE LET e == MatchEnd(SuffixPatterns[alt], 1, t, ti)
         IN IF e # 0 THEN e ELSE SuffixEnd(t, ti, alt + 1)

\* re.sub(pattern, "", text): leftmost non-overlapping matches, scanned once
RECURSIVE RemoveSuffixes(_, _)
RemoveSuffixes(t, ti) ==
    IF ti > Len(t) THEN <<>>
    ELSE LET e == SuffixEnd(t, ti, 1)
         IN IF e # 0 THEN RemoveSuffixes(t, e)
            ELSE <<t[ti]>> \o RemoveSuffixes(t, ti + 1)

\* the company name normalized as a text, its corporate suffix kept
NormalizeCompanyKeepsSuffix(company) == NormalizeText(company)

\* core.normalize.normalize_company
NormalizeCompany(company) ==
    Strip(CollapseSpaces(RemoveSuffixes(NormalizeText(company), 1)))

\* hash_text: sha256 of the text, taken to be injective
HashText(t) == t

\* core.normalize.title_company_hash
TitleCompanyHash(title, company) ==
    HashText(NormalizeText(title) \o <<"|">> \o NormalizeCompany(company))

DescFingerprintLen == 500

\* core.normalize.desc_fingerprint
DescFingerprint(description) ==
    HashText(Take(NormalizeText(description), DescFingerprintLen))

-----------------------------------------------------------------------------
(* URLs: urllib.parse and html.unescape as far as the two canonicalizers use them, *)
(* on URLs written with letters, digits and the characters of AsciiOrder.  "]" and *)
(* character references other than "&amp" are not part of the URLs modelled.       *)

Digits == <<"0", "1", "2", "3", "4", "5", "6", "7", "8", "9">>

\* the characters in code point order, which is the order of str comparison
AsciiOrder ==
    <<"\t", " ", "#", "%", "&", "+", "-", ".", "/">> \o Digits \o
    <<":", ";", "=", "?">> \o UpperLetters \o <<"[", "_">> \o LowerLetters \o <<"~">>

Ord(c) == CHOOSE i \in DOMAIN AsciiOrder : AsciiOrder[i] = c

MinOf(S) == CHOOSE x \in S : \A y \in S : x <= y

MaxOf(S) == CHOOSE x \in S : \A y \in S : x >= y

\* t.find(c, i), 1-based, 0 when absent
MinOrZero(S) == IF S = {} THEN 0 ELSE MinOf(S)

MaxOrZero(S) == IF S = {} THEN 0 ELSE MaxOf(S)

IndexFrom(t, c, i) == MinOrZero({j \in i..Len(t) : t[j] = c})

\* t.rfind(c), 1-based, 0 when absent
LastIndex(t, c) == MaxOrZero({j \in 1..Len(t) : t[j] = c})

Contains(t, c) == IndexFrom(t, c, 1) # 0

StartsWith(t, prefix) ==
    Len(t) >= Len(prefix) /\ SubSeq(t, 1, Len(prefix)) = prefix

\* t[n:]
Drop(t, n) == SubSeq(t, n + 1, Len(t))

\* t.partition(c) at the position i of c (0: c is absent)
PartitionAt(t, i) ==
    IF i = 0 THEN [before |-> t, after |-> <<>>]
    ELSE [before |-> SubSeq(t, 1, i - 1), after |-> Drop(t, i)]

Partition(t, c) == PartitionAt(t, IndexFrom(t, c, 1))

\* t.split(c)
RECURSIVE SplitOn(_, _)
SplitOn(t, c) ==
    IF ~Contains(t, c) THEN <<t>>
    ELSE <<Partition(t, c).before>> \o SplitOn(Partition(t, c).after, c)

\* t.rstrip(c)
RECURSIVE RStripChar(_, _)
RStripChar(t, c) ==
    IF t # <<>> /\ t[Len(t)] = c THEN RStripChar(SubSeq(t, 1, Len(t) - 1), c) ELSE t

RECURSIVE Concat(_)
Concat(ts) == IF ts = <<>> THEN <<>> ELSE Head(ts) \o Concat(Tail(ts))

\* sep.join(ts)
RECURSIVE Join(_, _)
Join(ts, sep) ==
    IF ts = <<>> THEN <<>>
    ELSE IF Len(ts) = 1 THEN Head(ts)
         ELSE Head(ts) \o sep \o Join(Tail(ts), sep)

\* a < b for two str
RECURSIVE LessText(_, _)
LessText(a, b) ==
    IF b = <<>> THEN FALSE
    ELSE IF a = <<>> THEN TRUE
         ELSE IF Head(a) = Head(b) THEN LessText(Tail(a), Tail(b))
              ELSE Ord(Head(a)) < Ord(Head(b))

\* html.unescape: "&amp;" and the legacy "&amp" become "&"; the scan goes on after
\* the replaced reference
RECURSIVE HtmlUnescape(_)
HtmlUnescape(t) ==
    IF t = <<>> THEN <<>>
    ELSE IF StartsWith(t, <<"&", "a", "m", "p">>)
         THEN <<"&">> \o HtmlUnescape(IF StartsWith(t, <<"&", "a", "m", "p", ";">>)
                                      THEN Drop(t, 5) ELSE Drop(t, 4))
         ELSE <<Head(t)>> \o HtmlUnescape(Tail(t))

SchemeChars == Range(LowerLetters) \cup Range(UpperLetters) \cup Range(Digits) \cup {"+", "-", "."}

\* urllib.parse.uses_netloc and uses_params, as far as they hold a modelled scheme
UsesNetloc == {<<>>, <<"h", "t", "t", "p">>, <<"h", "t", "t", "p", "s">>}

UsesParams == {<<>>, <<"h", "t", "t", "p">>, <<"h", "t", "t", "p", "s">>}

\* the position of the ":" that ends a scheme, given the position i of the first
\* ":"; 0 if the URL has no scheme
SchemeEndAt(u, i) ==
    IF /\ i > 1
       /\ u[1] \in Range(LowerLetters) \cup Range(UpperLetters)
       /\ \A j \in 1..(i - 1) : u[j] \in SchemeChars
    THEN i ELSE 0

\* _splitnetloc: the position after the netloc of a URL that starts with "//"
NetlocEnd(u) == MinOf({j \in 3..Len(u) : u[j] \in {"/", "?", "#"}} \cup {Len(u) + 1})

\* _splitparams: the path and the params, split at the first ";" of the last segment
SplitParams(scheme, u) ==
    PartitionAt(u, IF scheme \in UsesParams
                   THEN IndexFrom(u, ";", Max(1, LastIndex(u, "/"))) ELSE 0)

\* urlsplit raises ValueError("Invalid IPv6 URL") for a netloc with one bracket
ParseQuery(scheme, netloc, q, fragment) ==
    [ok |-> Contains(netloc, "[") = Contains(netloc, "]"),
     scheme |-> scheme, netloc |-> netloc,
     path |-> SplitParams(scheme, q.before).before,
     params |-> SplitParams(scheme, q.before).after,
     query |-> q.after, fragment |-> fragment]

ParseFragment(scheme, netloc, f) ==
    ParseQuery(scheme, netloc, Partition(f.before, "?"), f.after)

ParseNetloc(scheme, u) ==
    IF StartsWith(u, <<"/", "/">>)
    THEN ParseFragment(scheme, SubSeq(u, 3, NetlocEnd(u) - 1),
                       Partition(Drop(u, NetlocEnd(u) - 1), "#"))
    ELSE ParseFragment(scheme, <<>>, Partition(u, "#"))

ParseScheme(u, i) ==
    IF i = 0 THEN ParseNetloc(<<>>, u)
    ELSE ParseNetloc(MapLower(SubSeq(u, 1, i - 1)), Drop(u, i))

\* urlsplit on a URL cleared of leading blanks and of tabs
UrlSplit(u) == ParseScheme(u, SchemeEndAt(u, IndexFrom(u, ":", 1)))

\* urllib.parse.urlparse(url); ok is FALSE when it raises
UrlParse(url) == UrlSplit(SelectSeq(LStrip(url), LAMBDA c : c # "\t"))

\* urllib.parse.urlunparse((scheme, netloc, path, "", query, ""))
UrlUnparse(scheme, netloc, path, query) ==
    (IF scheme # <<>> THEN scheme \o <<":">> ELSE <<>>)
    \o (IF netloc # <<>> \/ (scheme # <<>> /\ scheme \in UsesNetloc
                             /\ ~StartsWith(path, <<"/", "/">>))
        THEN <<"/", "/">> \o netloc
             \o (IF path # <<>> /\ Head(path) # "/" THEN <<"/">> ELSE <<>>)
        ELSE <<>>)
    \o path
    \o (IF query # <<>> THEN <<"?">> \o query ELSE <<>>)

\* the characters quote_plus escapes, each with the two hex digits of its code
EscapeTable ==
    {<<"\t", "0", "9">>, <<"#", "2", "3">>, <<"%", "2", "5">>, <<"&", "2", "6">>,
     <<"+", "2", "B">>, <<"/", "2", "F">>, <<":", "3", "A">>, <<";", "3", "B">>,
     <<"=", "3", "D">>, <<"?", "3", "F">>, <<"[", "5", "B">>}

\* t starts with the escape e
Escapes(e, t) ==
    /\ Len(t) >= 3
    /\ t[1] = "%"
    /\ t[2] = e[2]
    /\ Lower(t[3]) = Lower(e[3])

\* urllib.parse.unquote: %XX becomes the character it encodes, hex digits in either case
RECURSIVE Unquote(_)
Unquote(t) ==
    IF t = <<>> THEN <<>>
    ELSE IF \E e \in EscapeTable : Escapes(e, t)
         THEN <<(CHOOSE e \in EscapeTable : Escapes(e, t))[1]>> \o Unquote(Drop(t, 3))
         ELSE <<Head(t)>> \o Unquote(Tail(t))

\* urllib.parse.quote_plus of one character
QuoteChar(c) ==
    IF c = " " THEN <<"+">>
    ELSE IF \E e \in EscapeTable : e[1] = c
         THEN <<"%">> \o Tail(CHOOSE e \in EscapeTable : e[1] = c)
         ELSE <<c>>

QuotePlus(t) == Concat([i \in 1..Len(t) |-> QuoteChar(t[i])])

PlusToSpace(t) == [i \in 1..Len(t) |-> IF t[i] = "+" THEN " " ELSE t[i]]

\* one name=value field of parse_qsl
FieldOf(nv) == [k |-> Unquote(PlusToSpace(nv.before)), v |-> Unquote(PlusToSpace(nv.after))]

\* urllib.parse.parse_qsl(query, keep_blank_values=True)
ParseFields(fields) == [i \in 1..Len(fields) |-> FieldOf(Partition(fields[i], "="))]

ParseQsl(query) ==
    IF query = <<>> THEN <<>>
    ELSE ParseFields(SelectSeq(SplitOn(query, "&"), LAMBDA f : f # <<>>))

\* urllib.parse.urlencode(pairs)
UrlEncode(pairs) ==
    Join([i \in 1..Len(pairs) |-> QuotePlus(pairs[i].k) \o <<"=">> \o QuotePlus(pairs[i].v)],
         <<"&">>)

\* (k1, v1) <= (k2, v2) for tuples of str
PairLeq(x, y) ==
    IF x.k = y.k THEN x.v = y.v \/ LessText(x.v, y.v) ELSE LessText(x.k, y.k)

RECURSIVE InsertPair(_, _)
InsertPair(sorted, x) ==
    IF sorted = <<>> THEN <<x>>
    ELSE IF PairLeq(Head(sorted), x) THEN <<Head(sorted)>> \o InsertPair(Tail(sorted), x)
         ELSE <<x>> \o sorted

\* sorted(pairs)
RECURSIVE SortPairs(_)
SortPairs(pairs) ==
    IF pairs = <<>> THEN <<>>
    ELSE InsertPair(SortPairs(SubSeq(pairs, 1, Len(pairs) - 1)), pairs[Len(pairs)])

IsUtm(key) == StartsWith(MapLower(key), <<"u", "t", "m", "_">>)

\* the stripped key without one leading "amp;"
WithoutAmp(key) ==
    IF StartsWith(MapLower(key), <<"a", "m", "p", ";">>) THEN Drop(key, 4) ELSE key

CommonQuery(pairs) ==
    SelectSeq([i \in 1..Len(pairs) |-> [k |-> WithoutAmp(Strip(pairs[i].k)), v |-> pairs[i].v]],
              LAMBDA x : x.k # <<>> /\ ~IsUtm(x.k))

\* the canonical URL made of a parsed one and its filtered query
Canonical(p, query) ==
    IF ~p.ok THEN [ok |-> FALSE, url |-> <<>>]
    ELSE [ok |-> TRUE,
          url |-> UrlUnparse(MapLower(p.scheme), MapLower(p.netloc),
                             RStripChar(p.path, "/"), UrlEncode(query))]

CommonCanonical(parsed) == Canonical(parsed, CommonQuery(ParseQsl(parsed.query)))

\* crawlers.common.canonical_url; ok is FALSE when it raises
CanonicalUrl(url) ==
    IF url = <<>> THEN [ok |-> TRUE, url |-> <<>>]
    ELSE CommonCanonical(UrlParse(HtmlUnescape(Strip(url))))

DedupCanonical(p) ==
    Canonical(p, SortPairs(SelectSeq(ParseQsl(p.query), LAMBDA x : ~IsUtm(x.k))))

\* core.dedup._canonical_url; ok is FALSE when it raises
DedupCanonicalUrl(url) ==
    IF url = <<>> THEN [ok |-> TRUE, url |-> <<>>]
    ELSE DedupCanonical(UrlParse(Strip(url)))

-----------------------------------------------------------------------------
(* core.dedup: the similarity measures *)

\* the length of the longest common run of a from i and b from j
RECURSIVE RunLen(_, _, _, _)
RunLen(a, b, i, j) ==
    IF i <= Len(a) /\ j <= Len(b) /\ a[i] = b[j] THEN 1 + RunLen(a, b, i + 1, j + 1) ELSE 0

\* the common runs <<i, j, k>> of a and b, one from each pair of positions
Runs(a, b) ==
    {m \in {<<i, j, RunLen(a, b, i, j)>> : i \in 1..Len(a), j \in 1..Len(b)} : m[3] > 0}

\* m is found before x: it is longer, or as long and earlier in a, or also as
\* early in a and not later in b
FoundFirst(m, x) ==
    \/ m[3] > x[3]
    \/ m[3] = x[3] /\ m[1] < x[1]
    \/ m[3] = x[3] /\ m[1] = x[1] /\ m[2] <= x[2]

\* SequenceMatcher.find_longest_match: the longest common block, of those the one
\* that starts earliest in a, of those the one that starts earliest in b
LongestMatch(runs) ==
    IF runs = {} THEN <<0, 0, 0>> ELSE CHOOSE m \in runs : \A x \in runs : FoundFirst(m, x)

\* the total size of SequenceMatcher.get_matching_blocks: the longest block, then
\* the same to the left of it and to the right of it
RECURSIVE MatchCount(_, _)
MatchAround(a, b, m) ==
    IF m[3] = 0 THEN 0
    ELSE m[3] + MatchCount(SubSeq(a, 1, m[1] - 1), SubSeq(b, 1, m[2] - 1))
              + MatchCount(Drop(a, m[1] + m[3] - 1), Drop(b, m[2] + m[3] - 1))

MatchCount(a, b) ==
    IF a = <<>> \/ b = <<>> THEN 0 ELSE MatchAround(a, b, LongestMatch(Runs(a, b)))

\* the default thresholds 0.9 and 0.86, in hundredths
SimThresholdPct == 90

CrossThresholdPct == 86

\* a measure that leaves equal titles to the exact keys
IsSimilarUnlessEqual(a, b, threshold) ==
    /\ a # <<>>
    /\ b # <<>>
    /\ a # b
    /\ 2 * MatchCount(a, b) * 100 >= threshold * (Len(a) + Len(b))

\* core.dedup._is_similar: ratio() = 2 * matches / (len(a) + len(b)) >= threshold
IsSimilar(a, b, threshold) ==
    /\ a # <<>>
    /\ b # <<>>
    /\ 2 * MatchCount(a, b) * 100 >= threshold * (Len(a) + Len(b))

\* core.dedup._token_set
TokenSet(text) == {tok \in Range(SplitOn(NormalizeText(text), " ")) : Len(tok) >= 2}

\* core.dedup._jaccard(a, b) >= threshold
JaccardAtLeast(a, b, threshold) ==
    /\ a # {}
    /\ b # {}
    /\ Cardinality(a \cap b) * 100 >= threshold * Cardinality(a \cup b)

-----------------------------------------------------------------------------
(* crawlers.common.normalize_job and the loop of _run_source that calls it *)

\* a raw record: isdict says whether it is a dict; a missing key is the empty str
RawRecord(url, title, company, location, description) ==
    [isdict |-> TRUE, url |-> url, title |-> title, company |-> company,
     location |-> location, description |-> description]

NotADict ==
    [isdict |-> FALSE, url |-> <<>>, title |-> <<>>, company |-> <<>>,
     location |-> <<>>, description |-> <<>>]

\* the fields of a Posting that normalization and dedup read or write
Posting(source, url, title, company, location, description) ==
    [source |-> source, url |-> url, title |-> title, company |-> company,
     location |-> location, description |-> description]

DefaultCompany == <<"U", "n", "k", "n", "o", "w", "n">>

DefaultLocation == <<"MI", "SANG">>

OrDefault(t, default) == IF t = <<>> THEN default ELSE t

\* the Job normalize_job builds, given what canonical_url made of the url
JobWithUrl(raw, source, url) ==
    [ok |-> url.ok,
     job |-> Posting(source, url.url,
                     CollapseSpaces(Strip(raw.title)),
                     OrDefault(Strip(raw.company), DefaultCompany),
                     OrDefault(Strip(raw.location), DefaultLocation),
                     CollapseSpaces(Strip(raw.description)))]

\* normalize_job(raw, source); ok is FALSE when it raises
NormalizeJob(raw, source) == JobWithUrl(raw, source, CanonicalUrl(Strip(raw.url)))

\* a loop that lets a Posting with an empty title through
KeepsEmptyTitle(job) == job.url # <<>>

\* the negation of "not job.url or not job.title"
Keeps(job) == job.url # <<>> /\ job.title # <<>>

\* the list jobs after the try block around normalize_job
JobsAfterNormalize(js, n) ==
    IF ~n.ok THEN js
    ELSE IF Keeps(n.job) THEN Append(js, n.job) ELSE js

\* the list jobs after one iteration of the for loop over raw_jobs
JobsAfterRaw(js, raw, source) ==
    IF ~raw.isdict THEN js ELSE JobsAfterNormalize(js, NormalizeJob(raw, source))

\* one iteration of "for raw in raw_jobs"
NormalizeRaw ==
    /\ UNCHANGED notNormVars
    /\ UNCHANGED dedupVars
    /\ n_pc = "loop"
    /\ raw_idx < Len(raw_jobs)
    /\ source_jobs' = JobsAfterRaw(source_jobs, raw_jobs[raw_idx + 1], n_source)
    /\ raw_idx' = raw_idx + 1
    /\ UNCHANGED <<n_pc, n_source, raw_jobs, collected>>

\* _run_source returns jobs, run_crawlers extends results with them and returns
\* their dicts to main
ReturnCollected ==
    /\ UNCHANGED notNormVars
    /\ UNCHANGED dedupVars
    /\ n_pc = "loop"
    /\ raw_idx = Len(raw_jobs)
    /\ collected' = source_jobs
    /\ n_pc' = "collected"
    /\ UNCHANGED <<n_source, raw_jobs, raw_idx, source_jobs>>

-----------------------------------------------------------------------------
(* core.dedup.deduplicate_jobs *)

LocationKeyLen == 20

CrossDescLen == 200

\* tc_hash, desc_hash and cross_key from the normalized fields
KeysOf(url, title, company, location, desc) ==
    [ok |-> url.ok, url |-> url.url, title |-> title, company |-> company,
     location |-> location, desc |-> desc,
     tc_hash |-> TitleCompanyHash(title, company),
     desc_hash |-> DescFingerprint(desc),
     cross_key |-> title \o <<"|">> \o company \o <<"|">> \o Take(location, LocationKeyLen)]

\* what the loop computes for a job before it tests the rules; ok is FALSE when
\* _canonical_url raises
JobKeys(job) ==
    KeysOf(DedupCanonicalUrl(job.url), NormalizeText(job.title),
           NormalizeCompany(job.company), NormalizeText(job.location),
           NormalizeText(job.description))

\* cur_tokens
CurTokens(k) ==
    TokenSet(k.title \o <<" ">> \o k.company \o <<" ">> \o k.location
             \o <<" ">> \o Take(k.desc, CrossDescLen))

\* x_tokens for an accepted Posting x
XTokens(x) ==
    TokenSet(x.title \o <<" ">> \o x.company \o <<" ">> \o x.location
             \o <<" ">> \o Take(NormalizeText(x.description), CrossDescLen))

\* the ladder without the description fingerprint
RejectingRuleNoFingerprint(k, c, urls, tcs, descs, keys, uniq) ==
    IF k.url # <<>> /\ k.url \in urls THEN 1
    ELSE IF k.tc_hash \in tcs THEN 2
    ELSE IF k.cross_key \in keys THEN 4
    ELSE IF c.sim_enabled
            /\ \E i \in DOMAIN uniq :
                  IsSimilar(k.title, NormalizeText(uniq[i].title), c.sim_threshold) THEN 5
    ELSE IF c.cross_enabled
            /\ \E i \in DOMAIN uniq :
                  JaccardAtLeast(CurTokens(k), XTokens(uniq[i]), c.cross_threshold) THEN 6
    ELSE 0

\* the rule that rejects a job with keys k, 0 if none does
RejectingRule(k, c, urls, tcs, descs, keys, uniq) ==
    IF k.url # <<>> /\ k.url \in urls THEN 1
    ELSE IF k.tc_hash \in tcs THEN 2
    ELSE IF k.desc_hash \in descs THEN 3
    ELSE IF k.cross_key \in keys THEN 4
    ELSE IF c.sim_enabled
            /\ \E i \in DOMAIN uniq :
                  IsSimilar(k.title, NormalizeText(uniq[i].title), c.sim_threshold) THEN 5
    ELSE IF c.cross_enabled
            /\ \E i \in DOMAIN uniq :
                  JaccardAtLeast(CurTokens(k), XTokens(uniq[i]), c.cross_threshold) THEN 6
    ELSE 0

\* a copy that keeps the url the job came with
CopiedKeepsUrl(job, url) == job

\* copied = dict(job); copied["url"] = url or job.get("url", "")
Copied(job, url) == [job EXCEPT !.url = IF url # <<>> THEN url ELSE job.url]

\* main calls deduplicate_jobs(collected, cfg.get("dedup", {}), logger)
CallDedup ==
    /\ UNCHANGED notNormVars
    /\ n_pc = "collected"
    /\ dd_pc = "off"
    /\ n_pc' = "dedup"
    /\ dd_pc' = "loop"
    /\ dedup_jobs' = collected
    /\ job_idx' = 0
    /\ seen_urls' = {}
    /\ seen_title_company' = {}
    /\ seen_desc' = {}
    /\ canonical_keys' = {}
    /\ unique' = <<>>
    /\ verdicts' = <<>>
    /\ UNCHANGED <<dcfg, n_source, raw_jobs, raw_idx, source_jobs, collected>>

\* an iteration that records the keys of the job whatever the verdict
DecideKeepsKeys(job, k, rule) ==
    /\ verdicts' = Append(verdicts, rule)
    /\ seen_urls' = IF k.url # <<>> THEN seen_urls \cup {k.url} ELSE seen_urls
    /\ seen_title_company' = seen_title_company \cup {k.tc_hash}
    /\ seen_desc' = seen_desc \cup {k.desc_hash}
    /\ canonical_keys' = canonical_keys \cup {k.cross_key}
    /\ unique' = IF rule = 0 THEN Append(unique, Copied(job, k.url)) ELSE unique

\* an iteration that records a description fingerprint only for a description
\* that is not empty
DecideSkipsEmptyDescription(job, k, rule) ==
    /\ verdicts' = Append(verdicts, rule)
    /\ IF rule = 0
       THEN /\ seen_urls' = IF k.url # <<>> THEN seen_urls \cup {k.url} ELSE seen_urls
            /\ seen_title_company' = seen_title_company \cup {k.tc_hash}
            /\ seen_desc' = IF k.desc # <<>> THEN seen_desc \cup {k.desc_hash} ELSE seen_desc
            /\ canonical_keys' = canonical_keys \cup {k.cross_key}
            /\ unique' = Append(unique, Copied(job, k.url))
       ELSE UNCHANGED <<seen_urls, seen_title_company, seen_desc, canonical_keys, unique>>

\* the end of an iteration: the job is rejected by the rule, or accepted (rule 0)
Decide(job, k, rule) ==
    /\ verdicts' = Append(verdicts, rule)
    /\ IF rule = 0
       THEN /\ seen_urls' = IF k.url # <<>> THEN seen_urls \cup {k.url} ELSE seen_urls
            /\ seen_title_company' = seen_title_company \cup {k.tc_hash}
            /\ seen_desc' = seen_desc \cup {k.desc_hash}
            /\ canonical_keys' = canonical_keys \cup {k.cross_key}
            /\ unique' = Append(unique, Copied(job, k.url))
       ELSE UNCHANGED <<seen_urls, seen_title_company, seen_desc, canonical_keys, unique>>

\* one iteration of "for job in jobs" (jobs is dedup_jobs) that does not raise: the
\* keys of the job, the ladder of rules, the verdict
DedupStep ==
    /\ UNCHANGED notDedupVars
    /\ dd_pc = "loop"
    /\ job_idx < Len(dedup_jobs)
    /\ \E k \in {JobKeys(dedup_jobs[job_idx + 1])} :
          /\ k.ok
          /\ \E rule \in {RejectingRule(k, dcfg, seen_urls, seen_title_company, seen_desc,
                                        canonical_keys, unique)} :
                Decide(dedup_jobs[job_idx + 1], k, rule)
    /\ job_idx' = job_idx + 1
    /\ UNCHANGED <<dd_pc, dedup_jobs, dcfg>>

\* _canonical_url raises on the job's url: nothing catches it, deduplicate_jobs
\* does not return
DedupRaises ==
    /\ UNCHANGED notDedupVars
    /\ dd_pc = "loop"
    /\ job_idx < Len(dedup_jobs)
    /\ ~JobKeys(dedup_jobs[job_idx + 1]).ok
    /\ dd_pc' = "raised"
    /\ UNCHANGED <<dedup_jobs, dcfg, job_idx, seen_urls, seen_title_company, seen_desc,
                   canonical_keys, unique, verdicts>>

\* return unique
DedupReturns ==
    /\ UNCHANGED notDedupVars
    /\ dd_pc = "loop"
    /\ job_idx = Len(dedup_jobs)
    /\ dd_pc' = "returned"
    /\ UNCHANGED <<dedup_jobs, dcfg, job_idx, seen_urls, seen_title_company, seen_desc,
                   canonical_keys, unique, verdicts>>

-----------------------------------------------------------------------------

Configs ==
    [tier : [Sources -> TierChoices],
     enabled : [Sources -> BOOLEAN],
     health_enabled : BOOLEAN,
     zero_threshold : 1..MaxThreshold]

\* run_crawlers is not under way
InitRunLocals ==
    /\ source_health = EmptyHealth
    /\ pc = "idle"
    /\ ordered_sources = <<>>
    /\ idx = 1
    /\ results = <<>>
    /\ running = {}
    /\ called = {}
    /\ attempts = <<>>
    /\ last = [source |-> "", way |-> "", loaded |-> 0]
    /\ start_file = EmptyHealth
    /\ streak = [s \in Sources |-> 0]
    /\ start_streak = [s \in Sources |-> 0]

\* no health file yet, and no run under way
InitRun ==
    /\ health_file = EmptyHealth
    /\ health_disk = "missing"
    /\ InitRunLocals

\* _fetch_details_parallel is not under way
InitDetailOff ==
    /\ d_pc = "off"
    /\ has_fetch_detail = FALSE
    /\ list_items = <<>>
    /\ workers = 0
    /\ max_items = 0
    /\ task = <<>>
    /\ detailed = <<>>
    /\ retval = <<>>

\* the normalization loop is not under way
InitNormOff ==
    /\ n_pc = "off"
    /\ n_source = ""
    /\ raw_jobs = <<>>
    /\ raw_idx = 0
    /\ source_jobs = <<>>
    /\ collected = <<>>

\* cfg.get("dedup", {}) without keys: both fuzzy rules on, at the default thresholds
DefaultDedupConfig ==
    [sim_enabled |-> TRUE, sim_threshold |-> SimThresholdPct,
     cross_enabled |-> TRUE, cross_threshold |-> CrossThresholdPct]

\* the state of deduplicate_jobs before its loop starts
DedupLocalsFresh ==
    /\ job_idx = 0
    /\ seen_urls = {}
    /\ seen_title_company = {}
    /\ seen_desc = {}
    /\ canonical_keys = {}
    /\ unique = <<>>
    /\ verdicts = <<>>

\* deduplicate_jobs is not under way
InitDedupOff ==
    /\ dd_pc = "off"
    /\ dedup_jobs = <<>>
    /\ dcfg = DefaultDedupConfig
    /\ DedupLocalsFresh

\* no request has been sent: nothing came back yet
NothingSent == [kind |-> "none", status |-> 0, retry_after |-> FALSE, location |-> FALSE]

\* no session.request is running: there is no Retry object
NoRetry == [total |-> 0, connect |-> 0, read |-> 0, status |-> 0]

\* request_with_retry is not under way
HttpIdle ==
    /\ h_pc = "off"
    /\ h_url = <<>>
    /\ h_method = "GET"
    /\ h_retries = 0
    /\ h_retry = NoRetry
    /\ h_attempts = <<>>
    /\ h_last = NothingSent
    /\ h_ret = "-"
    /\ h_meta = "clear"

\* a fresh process: _DEBUG_CLEANED_DIRS = set()
HttpOff == HttpIdle /\ debug_cleaned = FALSE

\* web_search is not under way
SearchOff ==
    /\ w_pc = "off"
    /\ w_retries = 0
    /\ w_providers = <<>>
    /\ w_idx = 0
    /\ w_try = 0
    /\ w_requests = 0
    /\ w_resp = 0

\* neither network call is under way
InitNetOff == HttpOff /\ SearchOff

\* the crawlers with a breaker file of their own
BreakerSources == {"linkareer", "breezyhr"}

\* a dict without keys
EmptyDict == [k \in {} |-> 0]

\* no BREAKER_FILE on disk
NoFile == [kind |-> "missing", data |-> EmptyDict]

\* no fetch_list of linkareer or breezyhr is under way, on the first day, and
\* neither breaker file exists yet
InitFetchOff ==
    /\ today = 1
    /\ breaker_file = [s \in BreakerSources |-> NoFile]
    /\ f_pc = "idle"
    /\ f_source = "linkareer"
    /\ render_enabled = FALSE
    /\ circuit_open = FALSE
    /\ f_urls = FALSE
    /\ dns_failed = FALSE
    /\ f_tried = <<>>
    /\ f_loaded = NoFile

\* the threads that may be inside request_with_retry at once
Threads == 1..MaxThreads

\* the retry budgets the callers pass, a negative one among them
RetryArgs == -1..MaxRetryArg

\* max(0, int(retries))
RetryTotal(retries) == IF retries < 0 THEN 0 ELSE retries

\* _run_source is not under way
InitSourceOff ==
    /\ s_pc = "off"
    /\ has_fetch_list = FALSE
    /\ has_crawl = FALSE
    /\ s_calls = <<>>

\* an empty jobs table and no upsert_jobs under way
InitDbOff ==
    /\ db_pc = "idle"
    /\ table = {}
    /\ committed = {}
    /\ db_jobs = <<>>
    /\ db_idx = 0
    /\ db_now = 1
    /\ db_before = {}

\* a fresh process: _SESSIONS = {}, the lock free, no thread in request_with_retry
InitThreadsOff ==
    /\ t_pc = [t \in Threads |-> "idle"]
    /\ t_retries = [t \in Threads |-> 0]
    /\ t_session = [t \in Threads |-> 0]
    /\ sessions = [r \in 0..MaxRetryArg |-> 0]
    /\ session_lock = 0
    /\ created = [r \in 0..MaxRetryArg |-> {}]
    /\ prunes = 0

InitMoreOff == InitSourceOff /\ InitDbOff /\ InitThreadsOff

\* Spec: every enabled/threshold choice under one tier layout (order b, a, c), many runs
BreakerTiers == [a |-> NoTier, b |-> 1, c |-> 3]

Init ==
    /\ cfg \in {c \in Configs : c.tier = BreakerTiers}
    /\ InitRun
    /\ InitDetailOff
    /\ InitNormOff
    /\ InitDedupOff
    /\ InitNetOff
    /\ InitFetchOff
    /\ InitMoreOff

\* SpecOrder: every tier layout, with the lowest threshold
InitOrder ==
    /\ cfg \in {c \in Configs : c.zero_threshold = 1}
    /\ InitRun
    /\ InitDetailOff
    /\ InitNormOff
    /\ InitDedupOff
    /\ InitNetOff
    /\ InitFetchOff
    /\ InitMoreOff

\* FairSpec: one configuration, run again and again
InitFair ==
    /\ cfg \in {c \in Configs : /\ c.tier = BreakerTiers
                                 /\ c.enabled = [a |-> TRUE, b |-> FALSE, c |-> TRUE]
                                 /\ c.health_enabled
                                 /\ c.zero_threshold = DefaultZeroThreshold}
    /\ InitRun
    /\ InitDetailOff
    /\ InitNormOff
    /\ InitDedupOff
    /\ InitNetOff
    /\ InitFetchOff
    /\ InitMoreOff

Next ==
    \/ StartRun
    \/ SkipDisabled
    \/ SkipByHealth
    \/ BeginSource
    \/ SourceReturns
    \/ SourceRaises
    \/ FinishRun

Spec == Init /\ [][Next]_vars

SpecOrder == InitOrder /\ [][Next]_vars

\* the scheduler (cron) starts run after run, and every step of a run is taken
FairSpec == InitFair /\ [][Next]_vars /\ WF_vars(Next)


\* SpecDetail: one call of _fetch_details_parallel
InitDetail ==
    /\ cfg \in {c \in Configs : /\ c.tier = BreakerTiers
                                 /\ c.enabled = [s \in Sources |-> TRUE]
                                 /\ c.health_enabled
                                 /\ c.zero_threshold = DefaultZeroThreshold}
    /\ InitRun
    /\ d_pc = "called"
    /\ has_fetch_detail \in BOOLEAN
    /\ list_items \in SeqsUpTo(ListRecords, MaxList)
    /\ workers \in 0..MaxWorkers
    /\ max_items \in 0..MaxItems
    /\ task = <<>>
    /\ detailed = <<>>
    /\ retval = <<>>
    /\ InitNormOff
    /\ InitDedupOff
    /\ InitNetOff
    /\ InitFetchOff
    /\ InitMoreOff

NextDetail ==
    \/ ReturnListItems
    \/ SubmitAll
    \/ WorkerStart
    \/ WorkerFinish
    \/ Collect
    \/ ReturnDetailed

SpecDetail == InitDetail /\ [][NextDetail]_vars

-----------------------------------------------------------------------------
(* The inputs of the normalization loop and of deduplicate_jobs *)

MaxRawJobs == 3        \* an adapter hands at most MaxRawJobs raw records to the loop
MaxJobs == 3           \* deduplicate_jobs is given at most MaxJobs Postings

HttpX == <<"h", "t", "t", "p", ":", "/", "/", "x">>

TitleRobot1 == <<"r", "o", "b", "o", "t", " ", "e", "n", "g", "1">>

TitleRobot2 == <<"r", "o", "b", "o", "t", " ", "e", "n", "g", "2">>

TitleSwapped == <<"e", "n", "g", "1", " ", "r", "o", "b", "o", "t">>

Acme == <<"a", "c", "m", "e">>

AcmeInc == <<"A", "c", "m", "e", " ", "I", "n", "c", ".">>

Seoul == <<"s", "e", "o", "u", "l">>

Busan == <<"b", "u", "s", "a", "n">>

\* the dedup configurations: each fuzzy rule on or off, default thresholds
DedupConfigs ==
    [sim_enabled : BOOLEAN, sim_threshold : {SimThresholdPct},
     cross_enabled : BOOLEAN, cross_threshold : {CrossThresholdPct}]

\* Postings as normalize_job makes them, chosen so that every rule of the ladder,
\* the rewriting of the url and the raising of _canonical_url occur
JobPool ==
    { Posting("a", HttpX \o <<"/", "q", "?", "b", "=", "1", "&", "a", "=", "2">>,
              TitleRobot1, Acme, Seoul, <<"d", "1", " ", "x">>),
      \* the same canonical URL
      Posting("b", HttpX \o <<"/", "q", "?", "a", "=", "2", "&", "b", "=", "1">>,
              <<"m", "n", " ", "o", "p">>, <<"b", "e", "t", "a">>, Busan, <<"d", "2">>),
      \* the same title and, but for the suffix, company
      Posting("b", HttpX \o <<"/", "b">>, TitleRobot1, AcmeInc, Busan, <<"d", "3">>),
      \* the same description
      Posting("c", HttpX \o <<"/", "c">>, <<"q", "r", " ", "s", "t">>,
              <<"g", "a", "m", "m", "a">>, DefaultLocation, <<"D", "1", " ", "x">>),
      \* two Postings with the same coarse key and different title+company hashes
      Posting("a", HttpX \o <<"/", "e">>, <<"u">>, <<"v">>, <<"w", "|", "z">>, <<"d", "5">>),
      Posting("b", HttpX \o <<"/", "f">>, <<"u", "|", "v">>, <<"w">>, <<"z">>, <<"d", "6">>),
      \* a title within the threshold of TitleRobot1
      Posting("b", HttpX \o <<"/", "g">>, TitleRobot2, <<"d", "e", "l", "t", "a">>,
              <<"d", "a", "e", "g", "u">>, <<"d", "7">>),
      \* the tokens of the first Posting in another order
      Posting("c", HttpX \o <<"/", "h">>, TitleSwapped, Acme, Seoul, <<"x", " ", "d", "1">>),
      \* what canonical_url makes of "////[x": _canonical_url raises on it
      Posting("c", <<"/", "/", "[", "x">>, <<"y", "z">>, DefaultCompany, DefaultLocation, <<>>) }

\* raw records as an adapter may hand them over
RawPool ==
    { RawRecord(<<" ", "H", "T", "T", "P", ":", "/", "/", "X", "/", "a", "/", "?",
                  "u", "t", "m", "_", "a", "=", "1", "#", "f", "\t">>,
                <<" ", "R", "o", "b", "o", "t", "\t", " ", "E", "n", "g", " ">>,
                <<>>, <<>>, <<"d", "1">>),
      RawRecord(HttpX \o <<"/", "b", "?", "b", "=", "1", "&", "a", "m", "p", ";", "a", "=", "2">>,
                <<"m", "n">>, AcmeInc, Seoul, <<"d", " ", " ", "2">>),
      \* the URL of the first record again
      RawRecord(HttpX \o <<"/", "a">>, <<"o", "p">>, <<"b", "e", "t", "a">>, Busan, <<"d", "3">>),
      NotADict,
      \* a url that is empty once canonical
      RawRecord(<<"/">>, <<"q", "r">>, <<>>, <<>>, <<"d", "4">>),
      \* a title of whitespace
      RawRecord(HttpX \o <<"/", "c">>, <<"\t", " ">>, <<>>, <<>>, <<"d", "5">>),
      \* canonical_url raises
      RawRecord(HttpX \o <<"[">>, <<"s", "t">>, <<>>, <<>>, <<"d", "6">>),
      \* canonical_url returns "//[x"
      RawRecord(<<"/", "/", "/", "/", "[", "x">>, <<"u", "v">>, <<>>, <<>>, <<"d", "7">>) }

\* SpecPipeline: one source's raw records through the normalization loop and on
\* through deduplicate_jobs
InitPipeline ==
    /\ cfg \in {c \in Configs : /\ c.tier = BreakerTiers
                                 /\ c.enabled = [s \in Sources |-> TRUE]
                                 /\ c.health_enabled
                                 /\ c.zero_threshold = DefaultZeroThreshold}
    /\ InitRun
    /\ InitDetailOff
    /\ n_pc = "loop"
    /\ n_source = "a"
    /\ raw_jobs \in SeqsUpTo(RawPool, MaxRawJobs)
    /\ raw_idx = 0
    /\ source_jobs = <<>>
    /\ collected = <<>>
    /\ dd_pc = "off"
    /\ dedup_jobs = <<>>
    /\ dcfg \in DedupConfigs
    /\ DedupLocalsFresh
    /\ InitNetOff
    /\ InitFetchOff
    /\ InitMoreOff

NextPipeline ==
    \/ NormalizeRaw
    \/ ReturnCollected
    \/ CallDedup
    \/ DedupStep
    \/ DedupRaises
    \/ DedupReturns

SpecPipeline == InitPipeline /\ [][NextPipeline]_vars

\* SpecDedup: one call of deduplicate_jobs
InitDedup ==
    /\ cfg \in {c \in Configs : /\ c.tier = BreakerTiers
                                 /\ c.enabled = [s \in Sources |-> TRUE]
                                 /\ c.health_enabled
                                 /\ c.zero_threshold = DefaultZeroThreshold}
    /\ InitRun
    /\ InitDetailOff
    /\ InitNormOff
    /\ dd_pc = "loop"
    /\ dedup_jobs \in SeqsUpTo(JobPool, MaxJobs)
    /\ dcfg \in DedupConfigs
    /\ DedupLocalsFresh
    /\ InitNetOff
    /\ InitFetchOff
    /\ InitMoreOff

NextDedup ==
    \/ DedupStep
    \/ DedupRaises
    \/ DedupReturns

SpecDedup == InitDedup /\ [][NextDedup]_vars

-----------------------------------------------------------------------------
(* Properties of run_crawlers *)

InRun == pc \in {"loop", "running", "done"}

AttemptedSources == {attempts[i].source : i \in DOMAIN attempts}

\* the breaker of s is open in the persisted state
Open(s) ==
    /\ cfg.health_enabled
    /\ cfg.enabled[s]
    /\ ConsecutiveZero(health_file, s) >= cfg.zero_threshold

\* C1: with health tracking enabled, a source whose persisted consecutive_zero is at
\* least the threshold when run_crawlers starts has none of its adapter functions
\* called in that run; so after `threshold` consecutive zero-yield attempts counted
\* from an empty history, the next run skips the source.
ZeroBreakerTrips ==
    \A s \in Sources :
        (InRun /\ cfg.health_enabled) =>
            /\ (ConsecutiveZero(start_file, s) >= cfg.zero_threshold => s \notin called)
            /\ (start_streak[s] >= cfg.zero_threshold => s \notin called)

ZeroBreakerTripsWitness ==
    /\ pc = "done"
    /\ cfg.health_enabled
    /\ cfg.zero_threshold = DefaultZeroThreshold
    /\ \E s \in Sources :
        /\ cfg.enabled[s]
        /\ start_file[s] = DefaultZeroThreshold
        /\ start_streak[s] = DefaultZeroThreshold
        /\ s \notin called
        /\ called # {}

\* C2: the skip decision is reversible: a source whose breaker is open is attempted
\* again by some later run, and its breaker closes again.
BreakerReversible ==
    \A s \in Sources : (Open(s) ~> (s \in called)) /\ (Open(s) ~> ~Open(s))

\* C3: whenever a source is attempted and _run_source returns at least one Posting,
\* its consecutive_zero in the health state is 0, whatever it was, and that is what
\* the run saves.
ZeroCounterReset ==
    cfg.health_enabled =>
        \A i \in DOMAIN attempts :
            attempts[i].jobs # <<>> =>
                /\ source_health[attempts[i].source] = 0
                /\ (pc = "done" => health_file[attempts[i].source] = 0)

ZeroCounterResetWitness ==
    /\ pc = "done"
    /\ cfg.health_enabled
    /\ last.way = "yield"
    /\ last.loaded >= 2
    /\ health_file[last.source] = 0

ZeroWays == {"empty", "all_dropped", "fetch_list_nonlist", "neither", "import_raises",
             "fetch_list_raises", "detail_stage_raises", "crawl_raises", "crawl_not_iterable"}

\* C4: whenever a source is attempted and contributes no Posting (the adapter returns
\* an empty list or a non-list, every record is dropped, the module has neither
\* fetch_list nor crawl, or something raises), its consecutive_zero is the loaded
\* value plus one, and that is what the run saves.
ZeroCounterIncrement ==
    cfg.health_enabled =>
        /\ \A i \in DOMAIN attempts :
            attempts[i].jobs = <<>> =>
                LET s == attempts[i].source
                IN /\ source_health[s] = ConsecutiveZero(start_file, s) + 1
                   /\ (pc = "done" => health_file[s] = ConsecutiveZero(start_file, s) + 1)
        /\ (last.way \in ZeroWays =>
                source_health[last.source] = last.loaded + 1)

ZeroCounterIncrementWitness ==
    /\ pc = "done"
    /\ cfg.health_enabled
    /\ Len(attempts) = 3
    /\ attempts[1].raised
    /\ ~attempts[2].raised /\ attempts[2].jobs = <<>>
    /\ last.way = "all_dropped"
    /\ last.loaded = 1
    /\ health_file[last.source] = 2
    /\ health_file[attempts[1].source] = 2

RECURSIVE JobsOf(_, _)
JobsOf(att, i) ==
    IF i > Len(att) THEN <<>>
    ELSE (IF att[i].raised THEN <<>> ELSE att[i].jobs) \o JobsOf(att, i + 1)

\* the sources a run has to attempt: enabled and not skipped by the health guard
DueSources ==
    {s \in Sources :
        /\ cfg.enabled[s]
        /\ ~(cfg.health_enabled /\ ConsecutiveZero(start_file, s) >= cfg.zero_threshold)}

\* C5: a source whose adapter raises does not make run_crawlers raise, contributes no
\* Posting, and leaves the result what the other sources returned, in order; every
\* enabled source that the breaker does not skip is attempted, also after a failure.
SourceIsolation ==
    /\ pc # "aborted"
    /\ \A i \in DOMAIN attempts :
        attempts[i].raised => \A k \in DOMAIN results : results[k].source # attempts[i].source
    /\ (pc \in {"loop", "done"} => results = JobsOf(attempts, 1))
    /\ (pc = "done" => AttemptedSources = DueSources)

SourceIsolationWitness ==
    /\ pc = "done"
    /\ Len(attempts) = 3
    /\ attempts[1].raised
    /\ attempts[2].jobs # <<>>
    /\ attempts[3].jobs # <<>>
    /\ Len(results) = 2

LessInOrder(s1, s2) ==
    \/ TierKey(s1) < TierKey(s2)
    \/ TierKey(s1) = TierKey(s2) /\ ConfigIndex(s1) < ConfigIndex(s2)

\* C9: sources are attempted one after another in ascending tier (a missing tier is 2,
\* equal tiers in configuration order), one source has returned before the next begins,
\* and in the result the Postings of a lower tier precede those of a higher tier.
TierOrdering ==
    /\ Cardinality(running) <= 1
    /\ (pc = "running" <=> running # {})
    /\ \A s \in running : s \notin AttemptedSources /\ s = ordered_sources[idx]
    /\ \A i, j \in DOMAIN attempts :
        i < j => LessInOrder(attempts[i].source, attempts[j].source)
    /\ \A i \in DOMAIN attempts, s \in running : LessInOrder(attempts[i].source, s)
    /\ \A i, j \in DOMAIN results :
        TierKey(results[i].source) < TierKey(results[j].source) => i < j

TierOrderingWitness ==
    /\ pc = "done"
    /\ cfg.tier = [a |-> NoTier, b |-> 1, c |-> NoTier]
    /\ Len(attempts) = 3
    /\ <<attempts[1].source, attempts[2].source, attempts[3].source>> = <<"b", "a", "c">>
    /\ Len(results) = 3


-----------------------------------------------------------------------------
(* Properties of _fetch_details_parallel *)

Failed(out) == out.kind \in {"raise", "none", "nondict"}

\* C6: whatever the order of completion and whichever fetch_detail calls raise or
\* return a falsy or non-dict value, the list returned holds exactly one record per
\* selected candidate, min(len(list_items), max_items) in all, and the record of a
\* failed candidate is its list-stage record.
DetailFailureIsolation ==
    has_fetch_detail =>
        /\ (d_pc = "collect" =>
                Len(detailed) = Cardinality({i \in DOMAIN task : task[i].st = "collected"}))
        /\ \A k \in DOMAIN detailed :
                Failed(task[detailed[k].cand].out) =>
                    detailed[k].rec = list_items[detailed[k].cand]
        /\ (d_pc = "returned" =>
                /\ Len(retval) = Min(Len(list_items), max_items)
                /\ retval = Records(detailed, 1)
                /\ \A i \in 1..Min(Len(list_items), max_items) :
                        Cardinality({k \in DOMAIN detailed : detailed[k].cand = i}) = 1)

DetailFailureIsolationWitness ==
    /\ d_pc = "returned"
    /\ has_fetch_detail
    /\ Len(list_items) = 3
    /\ max_items = 2
    /\ Len(retval) = 2
    /\ task[1].out.kind = "raise"
    /\ task[2].out.kind = "dict"
    /\ detailed[1].cand = 2
    /\ retval[2] = list_items[1]
    /\ retval[1] # list_items[2]

MergedAsOverlay(rec, base, detail) ==
    /\ DOMAIN rec = DOMAIN base \cup DOMAIN detail
    /\ \A k \in DOMAIN rec :
        rec[k] = IF k \in DOMAIN detail THEN detail[k] ELSE base[k]

\* C7: for a candidate whose fetch_detail returns a dict, the merged record has the
\* detail's value for every key of the detail and the list record's value for every
\* other key, and merging leaves the list record as it was.
MergeOverlay ==
    /\ [](\A k \in DOMAIN detailed :
            LET i == detailed[k].cand
            IN task[i].out.kind = "dict" =>
                   MergedAsOverlay(detailed[k].rec, list_items[i], task[i].out.val))
    /\ [][list_items' = list_items]_vars

MergeOverlayWitness ==
    /\ d_pc = "returned"
    /\ has_fetch_detail
    /\ Len(retval) = 2
    /\ list_items[1] = [k \in {"url", "description"} |-> "l"]
    /\ list_items[2] = [k \in {"url"} |-> "l"]
    /\ task[1].out = [kind |-> "dict", val |-> [k \in {"url"} |-> "d"]]
    /\ task[2].out = [kind |-> "dict", val |-> [k \in {"description"} |-> "d"]]
    /\ detailed[1].cand = 1
    /\ retval[1] = [url |-> "d", description |-> "l"]
    /\ retval[2] = [url |-> "l", description |-> "d"]

-----------------------------------------------------------------------------
(* Properties of the normalization loop and of deduplicate_jobs *)

NonEmptyUrlTitle(job) == job.url # <<>> /\ job.title # <<>>

AllNonEmpty(js) == \A i \in DOMAIN js : NonEmptyUrlTitle(js[i])

\* what one raw record contributes, judged on its own: nothing if it is not a
\* dict, if normalize_job raises on it or if its normalized url or title is empty,
\* else the one Posting normalize_job makes of it
Contribution(raw, n) ==
    IF ~raw.isdict \/ ~n.ok \/ n.job.url = <<>> \/ n.job.title = <<>> THEN <<>>
    ELSE <<n.job>>

\* C8: every Posting in _run_source's list, in the list run_crawlers returns and in
\* the list deduplicate_jobs builds from it has a non-empty url and a non-empty
\* title; and each pass of the normalization loop appends to the list exactly what
\* the current raw record contributes on its own (nothing for a record that is not
\* a dict or that normalizes to an empty url or title), leaving the Postings of
\* the other records as they are.
PostingInvariant ==
    /\ [](/\ AllNonEmpty(source_jobs)
          /\ AllNonEmpty(collected)
          /\ AllNonEmpty(dedup_jobs)
          /\ AllNonEmpty(unique))
    /\ [][source_jobs' =
            IF raw_idx' = raw_idx + 1
            THEN source_jobs \o Contribution(raw_jobs[raw_idx + 1],
                                             NormalizeJob(raw_jobs[raw_idx + 1], n_source))
            ELSE source_jobs]_vars

\* a raw record the loop drops
DroppedRaw(raw) ==
    \/ ~raw.isdict
    \/ Strip(raw.title) = <<>>
    \/ raw.url = <<"/">>

\* three raw records, the middle one dropped and the other two kept, have been
\* through the loop and deduplicate_jobs has returned a Posting
PostingInvariantWitness ==
    /\ dd_pc = "returned"
    /\ Len(raw_jobs) = 3
    /\ DroppedRaw(raw_jobs[2])
    /\ Len(collected) = 2
    /\ unique # <<>>

SameExceptUrl(x, y) == [x EXCEPT !.url = <<>>] = [y EXCEPT !.url = <<>>]

\* out is in is, in the same order, up to the url field
RECURSIVE IsSubsequence(_, _)
IsSubsequence(out, in) ==
    IF out = <<>> THEN TRUE
    ELSE IF in = <<>> THEN FALSE
         ELSE IF SameExceptUrl(Head(out), Head(in)) THEN IsSubsequence(Tail(out), Tail(in))
              ELSE IsSubsequence(out, Tail(in))

\* the later job matches the earlier one on one of the six rules
MatchesOn(kl, ke, earlier) ==
    \/ kl.url # <<>> /\ kl.url = ke.url
    \/ kl.tc_hash = ke.tc_hash
    \/ kl.desc_hash = ke.desc_hash
    \/ kl.cross_key = ke.cross_key
    \/ dcfg.sim_enabled /\ IsSimilar(kl.title, NormalizeText(earlier.title), dcfg.sim_threshold)
    \/ dcfg.cross_enabled
         /\ JaccardAtLeast(CurTokens(kl), XTokens(earlier), dcfg.cross_threshold)

Matches(later, earlier) == MatchesOn(JobKeys(later), JobKeys(earlier), earlier)

\* whatever deduplicate_jobs has built is a subsequence of its input
OutputIsSubsequence == IsSubsequence(unique, dedup_jobs)

\* once the loop is past the first Posting, that Posting heads the output
FirstAccepted ==
    job_idx >= 1 => /\ verdicts[1] = 0
                    /\ unique # <<>>
                    /\ SameExceptUrl(unique[1], dedup_jobs[1])

\* a Posting that matches an accepted earlier Posting is not accepted
LaterNeverReplaces ==
    \A i, j \in 1..job_idx :
        (i < j /\ verdicts[i] = 0 /\ Matches(dedup_jobs[j], dedup_jobs[i])) => verdicts[j] # 0

\* deduplicate_jobs comes to return its list
DedupCompletes == dd_pc # "raised"

\* C10: deduplicate_jobs returns a subsequence of its input (same order, elements
\* equal to the input's but for url), the first input Posting is always accepted,
\* and a Posting that matches an accepted earlier Posting on a rule is never
\* accepted.
DedupFirstWins ==
    /\ DedupCompletes
    /\ OutputIsSubsequence
    /\ FirstAccepted
    /\ LaterNeverReplaces

-----------------------------------------------------------------------------
(* deduplicate_jobs as a function of its arguments, to compare calls *)

\* the locals of deduplicate_jobs before the loop
DedupLocals ==
    [ok |-> TRUE, seen_urls |-> {}, seen_title_company |-> {}, seen_desc |-> {},
     canonical_keys |-> {}, unique |-> <<>>]

\* the locals after a job with keys k got its verdict: as they were if a rule
\* rejects it, else with its keys and its copy added
AfterVerdict(st, job, k, rule) ==
    IF rule # 0 THEN st
    ELSE [ok |-> TRUE,
          seen_urls |-> IF k.url # <<>> THEN st.seen_urls \cup {k.url} ELSE st.seen_urls,
          seen_title_company |-> st.seen_title_company \cup {k.tc_hash},
          seen_desc |-> st.seen_desc \cup {k.desc_hash},
          canonical_keys |-> st.canonical_keys \cup {k.cross_key},
          unique |-> Append(st.unique, Copied(job, k.url))]

\* one iteration of the loop on the locals st; ok turns FALSE when _canonical_url
\* raises, and the call is over
AfterJob(st, job, k, c) ==
    IF ~st.ok THEN st
    ELSE IF ~k.ok THEN [st EXCEPT !.ok = FALSE]
    ELSE AfterVerdict(st, job, k,
                      RejectingRule(k, c, st.seen_urls, st.seen_title_company, st.seen_desc,
                                    st.canonical_keys, st.unique))

\* the locals at the end of deduplicate_jobs(jobs, c)
RECURSIVE DedupRun(_, _)
DedupRun(jobs, c) ==
    IF jobs = <<>> THEN DedupLocals
    ELSE AfterJob(DedupRun(SubSeq(jobs, 1, Len(jobs) - 1), c), jobs[Len(jobs)],
                  JobKeys(jobs[Len(jobs)]), c)

\* the list in the order p
Permuted(jobs, p) == [i \in DOMAIN jobs |-> jobs[p[i]]]

\* the loop and the function agree on the list built from the jobs looked at
RunAgrees ==
    dd_pc \in {"loop", "returned"} =>
        /\ DedupRun(SubSeq(dedup_jobs, 1, job_idx), dcfg).ok
        /\ DedupRun(SubSeq(dedup_jobs, 1, job_idx), dcfg).unique = unique

\* C11: when deduplicate_jobs has returned, it returns a list of the same length
\* for every permutation of its input, under the same configuration.
PermutationCount ==
    dd_pc = "returned" =>
        \A p \in Permutations(DOMAIN dedup_jobs) :
            /\ DedupRun(Permuted(dedup_jobs, p), dcfg).ok
            /\ Len(DedupRun(Permuted(dedup_jobs, p), dcfg).unique) = Len(unique)

-----------------------------------------------------------------------------
(* The exact rules *)

\* the keys of the job share the key of the exact rule r with those of an earlier job
ExactMatch(r, kl, ke) ==
    \/ r = 1 /\ kl.url # <<>> /\ kl.url = ke.url
    \/ r = 2 /\ kl.tc_hash = ke.tc_hash
    \/ r = 3 /\ kl.desc_hash = ke.desc_hash
    \/ r = 4 /\ kl.cross_key = ke.cross_key

\* the exact rules on which job j matches an accepted earlier job
ExactRules(j) ==
    {r \in 1..4 : \E i \in 1..(j - 1) :
                     /\ verdicts[i] = 0
                     /\ ExactMatch(r, JobKeys(dedup_jobs[j]), JobKeys(dedup_jobs[i]))}

\* the accepted jobs do not share a key of an exact rule
ExactKeysUnique ==
    \A i, j \in 1..job_idx :
        (i < j /\ verdicts[i] = 0 /\ verdicts[j] = 0) =>
            \A r \in 1..4 : ~ExactMatch(r, JobKeys(dedup_jobs[j]), JobKeys(dedup_jobs[i]))

\* the Postings of the output do not share a non-empty url
OutputUrlsUnique ==
    \A i, j \in DOMAIN unique :
        (i < j /\ unique[i].url # <<>>) => unique[i].url # unique[j].url

\* a job that matches on an exact rule is rejected by the first such rule, and a
\* job that matches on none is rejected by no exact rule
FirstExactRejects ==
    \A j \in 1..job_idx :
        IF ExactRules(j) = {} THEN verdicts[j] \in {0, 5, 6}
        ELSE verdicts[j] = MinOf(ExactRules(j))

\* C12: no two Postings accepted by deduplicate_jobs share a non-empty canonical
\* URL, a title+company hash, a description fingerprint or a coarse key
\* title|company|location[:20]; the four checks are applied in that order and the
\* first one that matches rejects the job.
ExactKeyUniqueness ==
    /\ ExactKeysUnique
    /\ OutputUrlsUnique
    /\ FirstExactRejects

\* a call has returned that rejected a copy of its first job, which matches on all
\* four keys, by the URL rule and its third job by the coarse key alone
ExactKeyUniquenessWitness ==
    /\ dd_pc = "returned"
    /\ verdicts = <<0, 1, 4>>
    /\ dedup_jobs[2] = dedup_jobs[1]
    /\ ExactRules(2) = 1..4
    /\ ExactRules(3) = {4}
    /\ Len(unique) = 1

-----------------------------------------------------------------------------
(* URLs that differ only in utm_* parameters, fragment or trailing slash *)

\* the URLs the variants are made of: scheme and host, path, query pairs
BaseUrls ==
    [prefix : {HttpX, <<"h", "t", "t", "p", ":", "/", "/", "[", "x">>},
     path : {<<>>, <<"/", "j", "/", "1">>, <<"/", "j", ";", "p">>},
     pairs : {<<>>, << <<"b", "=", "1">> >>}]

\* what a variant adds to its base: a utm_* pair before or after the pairs of the
\* base, a fragment, a trailing slash
Variations == [utm : {"none", "first", "last"}, fragment : BOOLEAN, slash : BOOLEAN]

UtmPair == <<"U", "t", "m", "_", "s", "=", "a">>

WithUtm(pairs, utm) ==
    IF utm = "first" THEN <<UtmPair>> \o pairs
    ELSE IF utm = "last" THEN pairs \o <<UtmPair>>
    ELSE pairs

QueryPart(pairs) == IF pairs = <<>> THEN <<>> ELSE <<"?">> \o Join(pairs, <<"&">>)

Variant(b, v) ==
    b.prefix \o b.path \o (IF v.slash THEN <<"/">> ELSE <<>>)
        \o QueryPart(WithUtm(b.pairs, v.utm))
        \o (IF v.fragment THEN <<"#", "f">> ELSE <<>>)

\* the pairs of URLs that differ only so, with the base they are variants of
VariantPairs ==
    {[base |-> b, u1 |-> Variant(b, v), u2 |-> Variant(b, w)] :
        b \in BaseUrls, v \in Variations, w \in Variations}

\* SpecVariants: deduplicate_jobs on two Postings that have nothing in common but
\* that their URLs are variants of one base
InitVariants ==
    /\ cfg \in {c \in Configs : /\ c.tier = BreakerTiers
                                 /\ c.enabled = [s \in Sources |-> TRUE]
                                 /\ c.health_enabled
                                 /\ c.zero_threshold = DefaultZeroThreshold}
    /\ InitRun
    /\ InitDetailOff
    /\ InitNormOff
    /\ dd_pc = "loop"
    /\ \E vp \in VariantPairs :
          dedup_jobs = <<Posting("a", vp.u1, TitleRobot1, Acme, Seoul, <<"d", "1", " ", "x">>),
                         Posting("b", vp.u2, <<"m", "n", " ", "o", "p">>,
                                 <<"b", "e", "t", "a">>, Busan, <<"d", "2">>)>>
    /\ dcfg = DefaultDedupConfig
    /\ DedupLocalsFresh
    /\ InitNetOff
    /\ InitFetchOff
    /\ InitMoreOff

NextVariants ==
    \/ DedupStep
    \/ DedupRaises
    \/ DedupReturns

SpecVariants == InitVariants /\ [][NextVariants]_vars

\* both canonicalizers give the two URLs the same canonical URL, or raise on both
SameCanonical(u1, u2) ==
    /\ CanonicalUrl(u1) = CanonicalUrl(u2)
    /\ DedupCanonicalUrl(u1) = DedupCanonicalUrl(u2)

\* the input is two Postings whose URLs differ only in utm_* parameters, fragment
\* or trailing slash
VariantInput ==
    /\ Len(dedup_jobs) = 2
    /\ \E vp \in VariantPairs : vp.u1 = dedup_jobs[1].url /\ vp.u2 = dedup_jobs[2].url

\* C13: two URLs that differ only in utm_* query parameters, fragment or trailing
\* slash have the same canonical URL under canonical_url and under _canonical_url,
\* and of two Postings with such URLs deduplicate_jobs rejects the second.
UrlEquivalence ==
    VariantInput =>
        /\ SameCanonical(dedup_jobs[1].url, dedup_jobs[2].url)
        /\ job_idx = 2 => verdicts[2] # 0

\* the same for the bases whose path has no ";"
UrlEquivalenceWithoutParams ==
    (VariantInput /\ dd_pc # "raised" /\ ~Contains(dedup_jobs[1].url, ";")) =>
        /\ SameCanonical(dedup_jobs[1].url, dedup_jobs[2].url)
        /\ job_idx = 2 => verdicts[2] = 1

-----------------------------------------------------------------------------
(* Companies that differ only by a corporate suffix *)

CompanyNames ==
    {Acme, <<"X", " ", "c", "o">>, <<"i", "n">>, <<"SA", "MI">>}

\* a company name as it is, and with "(JU)", "JU SIK HOE SA", "Inc.", "Corp." or
\* "Co., Ltd." put to it the way such names are written
WithSuffix(name) ==
    {name,
     <<"(", "JU", ")">> \o name,
     name \o <<"(", "JU", ")">>,
     <<"JU", "SIK", "HOE", "SA", " ">> \o name,
     name \o <<" ", "I", "n", "c", ".">>,
     name \o <<" ", "C", "o", "r", "p", ".">>,
     name \o <<" ", "C", "o", ".", ",", " ", "L", "t", "d", ".">>}

SuffixPairs == {<<c1, c2>> \in UNION {WithSuffix(n) \X WithSuffix(n) : n \in CompanyNames} : c1 # c2}

\* titles with the normalized title "robot eng1"
SameTitles == {TitleRobot1, <<" ", "R", "o", "b", "o", "t", "\t", " ", "E", "n", "g", "1">>}

\* the URLs of the two Postings: different, the second one at times a URL on which
\* _canonical_url raises
UrlPairs ==
    {<<HttpX \o <<"/", "a">>, HttpX \o <<"/", "b">>>>,
     <<HttpX \o <<"/", "a">>, <<"h", "t", "t", "p", ":", "/", "/", "[", "x">>>>}

\* SpecSuffix: deduplicate_jobs on two Postings with the same normalized title,
\* companies that differ only by a corporate suffix, and nothing else in common
InitSuffix ==
    /\ cfg \in {c \in Configs : /\ c.tier = BreakerTiers
                                 /\ c.enabled = [s \in Sources |-> TRUE]
                                 /\ c.health_enabled
                                 /\ c.zero_threshold = DefaultZeroThreshold}
    /\ InitRun
    /\ InitDetailOff
    /\ InitNormOff
    /\ dd_pc = "loop"
    /\ \E cs \in SuffixPairs, t2 \in SameTitles, us \in UrlPairs :
          dedup_jobs = <<Posting("a", us[1], TitleRobot1, cs[1], Seoul, <<"d", "1", " ", "x">>),
                         Posting("b", us[2], t2, cs[2], Busan, <<"d", "2">>)>>
    /\ dcfg \in DedupConfigs
    /\ DedupLocalsFresh
    /\ InitNetOff
    /\ InitFetchOff
    /\ InitMoreOff

NextSuffix ==
    \/ DedupStep
    \/ DedupRaises
    \/ DedupReturns

SpecSuffix == InitSuffix /\ [][NextSuffix]_vars

\* the input is two Postings with the same normalized title whose companies differ
\* only by a corporate suffix
SuffixInput ==
    /\ Len(dedup_jobs) = 2
    /\ NormalizeText(dedup_jobs[1].title) = NormalizeText(dedup_jobs[2].title)
    /\ <<dedup_jobs[1].company, dedup_jobs[2].company>> \in SuffixPairs

\* C14: two Postings with the same normalized title whose companies differ only by
\* a corporate suffix have the same title+company hash, and deduplicate_jobs, once
\* it has looked at both, has rejected the later one, whatever the configuration
\* of the similarity rules and although URLs, descriptions and locations differ.
SuffixCollision ==
    SuffixInput =>
        /\ JobKeys(dedup_jobs[1]).tc_hash = JobKeys(dedup_jobs[2]).tc_hash
        /\ job_idx = 2 => verdicts = <<0, 2>>

\* a call with both similarity rules off has returned the first Posting only, the
\* second, written with a suffix the first does not have, rejected by the hash
SuffixCollisionWitness ==
    /\ SuffixInput
    /\ dd_pc = "returned"
    /\ ~dcfg.sim_enabled
    /\ ~dcfg.cross_enabled
    /\ dedup_jobs[1].company = <<"(", "JU", ")", "SA", "MI">>
    /\ dedup_jobs[2].company = <<"SA", "MI">>
    /\ dedup_jobs[1].url # dedup_jobs[2].url
    /\ verdicts = <<0, 2>>
    /\ Len(unique) = 1

-----------------------------------------------------------------------------
(* Two sources that post one role *)

\* how the company of the role is written
RoleCompanies == {Acme, AcmeInc}

\* the description of the second Posting: the words of the first in another
\* order, those and one more, other words
RoleDescriptions ==
    {<<"f", "f", " ", "d", "d", " ", "c", "c">>,
     <<"f", "f", " ", "d", "d", " ", "c", "c", " ", "g", "g">>,
     <<"z", "z", " ", "y", "y">>}

\* SpecCross: deduplicate_jobs on two Postings of different sources with different
\* URLs and titles "aa bb" and "aa bb ee", in either order
InitCross ==
    /\ cfg \in {c \in Configs : /\ c.tier = BreakerTiers
                                 /\ c.enabled = [s \in Sources |-> TRUE]
                                 /\ c.health_enabled
                                 /\ c.zero_threshold = DefaultZeroThreshold}
    /\ InitRun
    /\ InitDetailOff
    /\ InitNormOff
    /\ dd_pc = "loop"
    /\ \E c1 \in RoleCompanies, c2 \in RoleCompanies, d2 \in RoleDescriptions,
          us \in UrlPairs, swap \in BOOLEAN :
          dedup_jobs =
              Permuted(<<Posting("a", us[1], <<"a", "a", " ", "b", "b">>, c1, Seoul,
                                 <<"c", "c", " ", "d", "d", " ", "f", "f">>),
                         Posting("b", us[2], <<"a", "a", " ", "b", "b", " ", "e", "e">>, c2,
                                 Seoul, d2)>>,
                       IF swap THEN <<2, 1>> ELSE <<1, 2>>)
    /\ dcfg \in DedupConfigs
    /\ DedupLocalsFresh
    /\ InitNetOff
    /\ InitFetchOff
    /\ InitMoreOff

NextCross ==
    \/ DedupStep
    \/ DedupRaises
    \/ DedupReturns

SpecCross == InitCross /\ [][NextCross]_vars

\* the tokens of a Posting's title, company, location and first 200 description
\* characters
PostingTokens(job) ==
    TokenSet(job.title \o <<" ">> \o job.company \o <<" ">> \o job.location
             \o <<" ">> \o Take(NormalizeText(job.description), CrossDescLen))

\* the input is two Postings from different sources whose token sets have a Jaccard
\* similarity of at least the configured threshold
CrossInput ==
    /\ Len(dedup_jobs) = 2
    /\ dedup_jobs[1].source # dedup_jobs[2].source
    /\ JaccardAtLeast(PostingTokens(dedup_jobs[1]), PostingTokens(dedup_jobs[2]),
                      dcfg.cross_threshold)

\* C15: of two Postings from different sources whose token sets over title,
\* company, location and the first 200 description characters have a Jaccard
\* similarity of at least the threshold, deduplicate_jobs rejects the second when
\* cross_site_similarity_enabled is true and accepts both when it is false.
CrossToggle ==
    (CrossInput /\ job_idx = 2) =>
        IF dcfg.cross_enabled THEN verdicts[2] # 0 ELSE verdicts = <<0, 0>>

\* the same where the similarity is that of the tokens deduplicate_jobs compares:
\* those of the later Posting's normalized fields, the company without its
\* suffixes, and those of the earlier Posting's fields as they are
CrossToggleAsCompared ==
    (/\ Len(dedup_jobs) = 2
     /\ job_idx = 2
     /\ JaccardAtLeast(CurTokens(JobKeys(dedup_jobs[2])), XTokens(dedup_jobs[1]),
                       dcfg.cross_threshold)) =>
        IF dcfg.cross_enabled THEN verdicts = <<0, 6>> ELSE verdicts = <<0, 0>>

-----------------------------------------------------------------------------
(* Normalizing what is already normalized *)

\* the urls of the raw records: with "amp;" twice before a key, with ";" before a
\* trailing slash, with a bracket after four slashes, with a utm_* pair, a
\* fragment and a trailing slash, and a plain one
TwiceUrls ==
    {HttpX \o <<"/", "j", "?", "a", "m", "p", ";", "a", "m", "p", ";", "i", "d", "=", "1">>,
     HttpX \o <<"/", "a", ";", "/">>,
     <<"/", "/", "/", "/", "[", "x">>,
     HttpX \o <<"/", "a", "/", "?", "b", "=", "1", "&", "U", "t", "m", "_", "s", "=", "2", "#", "f">>,
     HttpX \o <<"/", "c">>}

\* their companies: "Co. Inc. Ltd.", "C(JU)orp", "Acme Inc." and none
TwiceCompanies ==
    {<<"C", "o", ".", " ", "I", "n", "c", ".", " ", "L", "t", "d", ".">>,
     <<"C", "(", "JU", ")", "o", "r", "p">>,
     AcmeInc,
     <<>>}

\* SpecTwice: one raw record through the normalization loop and deduplicate_jobs
InitTwice ==
    /\ cfg \in {c \in Configs : /\ c.tier = BreakerTiers
                                 /\ c.enabled = [s \in Sources |-> TRUE]
                                 /\ c.health_enabled
                                 /\ c.zero_threshold = DefaultZeroThreshold}
    /\ InitRun
    /\ InitDetailOff
    /\ n_pc = "loop"
    /\ n_source = "a"
    /\ \E u \in TwiceUrls, c \in TwiceCompanies :
          raw_jobs = <<RawRecord(u, TitleRobot1, c, Seoul, <<"d", "1">>)>>
    /\ raw_idx = 0
    /\ source_jobs = <<>>
    /\ collected = <<>>
    /\ dd_pc = "off"
    /\ dedup_jobs = <<>>
    /\ dcfg \in DedupConfigs
    /\ DedupLocalsFresh
    /\ InitNetOff
    /\ InitFetchOff
    /\ InitMoreOff

SpecTwice == InitTwice /\ [][NextPipeline]_vars

\* a canonicalizer that gave c gives c again on c's url
CanonicalAgain(c, again) == c.ok => again = c

\* canonical_url gives its own result again on the url of every raw record the
\* loop has normalized
CommonUrlIdempotent ==
    \A i \in 1..raw_idx :
        raw_jobs[i].isdict =>
            CanonicalAgain(CanonicalUrl(Strip(raw_jobs[i].url)),
                           CanonicalUrl(CanonicalUrl(Strip(raw_jobs[i].url)).url))

\* _canonical_url gives its own result again on the url of every job the loop of
\* deduplicate_jobs has looked at
DedupUrlIdempotent ==
    \A j \in 1..job_idx :
        CanonicalAgain(DedupCanonicalUrl(dedup_jobs[j].url),
                       DedupCanonicalUrl(DedupCanonicalUrl(dedup_jobs[j].url).url))

\* normalize_company gives its own result again on the company of every such job
CompanyIdempotent ==
    \A j \in 1..job_idx :
        NormalizeCompany(NormalizeCompany(dedup_jobs[j].company))
            = NormalizeCompany(dedup_jobs[j].company)

\* C16: applying normalize_company twice gives what applying it once gives, and
\* so do canonical_url and _canonical_url, on every input they are applied to.
NormalizationIdempotent ==
    /\ CommonUrlIdempotent
    /\ DedupUrlIdempotent
    /\ CompanyIdempotent

(***************************************************************************)
(* request_with_retry (src/crawlers/common.py): one request through a      *)
(* requests Session whose adapter retries with urllib3's Retry.            *)
(***************************************************************************)

\* the largest retries argument tried
MaxRetries == 2

\* the redirects session.request follows before it raises TooManyRedirects
\* (requests allows 30)
MaxRedirects == 2

\* RETRY_STATUS_CODES, the status_forcelist of the Retry
RETRY_STATUS_CODES == {429, 500, 502, 503, 504}

\* allowed_methods of the Retry
AllowedMethods == {"HEAD", "GET", "OPTIONS", "POST"}

\* respect_retry_after_header=True: the statuses urllib3 retries when the
\* response carries a Retry-After header (Retry.RETRY_AFTER_STATUS_CODES)
RetryAfterStatusCodes == {413, 429, 503}

\* the statuses servers answer with
Statuses == {200, 302, 404, 413, 429, 500}

\* what sending a request once ends in: no connection, a connection that
\* breaks or times out while reading, or a response (a Location header is
\* given with 302 only)
Outcomes ==
    {[kind |-> k, status |-> 0, retry_after |-> FALSE, location |-> FALSE] :
        k \in {"connect_error", "read_error"}}
    \cup {o \in [kind : {"response"}, status : Statuses, retry_after : BOOLEAN,
                 location : BOOLEAN] : o.location => o.status = 302}

\* retry_total = max(0, int(retries)); Retry(total, connect, read, status = retry_total)
NewRetry(retries) ==
    [total |-> Max(0, retries), connect |-> Max(0, retries),
     read |-> Max(0, retries), status |-> Max(0, retries)]

\* Retry._is_method_retryable
IsMethodRetryable(method) == method \in AllowedMethods

\* Retry.is_retry(method, status_code, has_retry_after)
IsRetry(retry, method, o) ==
    /\ IsMethodRetryable(method)
    /\ \/ o.status \in RETRY_STATUS_CODES
       \/ retry.total # 0 /\ o.retry_after /\ o.status \in RetryAfterStatusCodes

\* Retry.increment without its decrement of total
IncrementKeepsTotal(retry, o) ==
    [total |-> retry.total,
     connect |-> IF o.kind = "connect_error" THEN retry.connect - 1 ELSE retry.connect,
     read |-> IF o.kind = "read_error" THEN retry.read - 1 ELSE retry.read,
     status |-> IF o.kind = "response" THEN retry.status - 1 ELSE retry.status]

\* Retry.increment: the counts of the Retry that replaces this one
Increment(retry, o) ==
    [total |-> retry.total - 1,
     connect |-> IF o.kind = "connect_error" THEN retry.connect - 1 ELSE retry.connect,
     read |-> IF o.kind = "read_error" THEN retry.read - 1 ELSE retry.read,
     status |-> IF o.kind = "response" THEN retry.status - 1 ELSE retry.status]

\* Retry.is_exhausted
IsExhausted(retry) ==
    retry.total < 0 \/ retry.connect < 0 \/ retry.read < 0 \/ retry.status < 0

\* HTTPConnectionPool.urlopen after one send: "retry" (send again), "error"
\* (an exception leaves session.request) or "final" (the response is handed
\* up; raise_on_status=False hands up the response of an exhausted Retry)
Urlopen(retry, method, o) ==
    IF o.kind # "response"
    THEN IF (o.kind = "read_error" /\ ~IsMethodRetryable(method))
            \/ IsExhausted(Increment(retry, o))
         THEN "error" ELSE "retry"
    ELSE IF IsRetry(retry, method, o) /\ ~IsExhausted(Increment(retry, o))
         THEN "retry" ELSE "final"

\* the url arguments: one that answers, one urlparse raises on, and none
RequestUrls == {HttpX \o <<"/", "a">>, <<"h", "t", "t", "p", ":", "/", "/", "[", "x">>, <<>>}

\* the method arguments: one the Retry allows and one it does not
Methods == {"GET", "PUT"}

\* the sends of one request after which the model stops sending
AttemptCap == MaxRetries + 2

\* h_attempts with one more send of the request being sent
OneMoreAttempt ==
    [h_attempts EXCEPT ![Len(h_attempts)] = h_attempts[Len(h_attempts)] + 1]

\* request_with_retry returns: except Exception (meta "error"), a 2xx/3xx
\* response, or None after the dump (meta "status")
Returns(ret, meta) ==
    /\ h_pc' = "returned"
    /\ h_ret' = ret
    /\ h_meta' = meta
    /\ h_retry' = NoRetry

\* request_with_retry is called; urlparse(url) runs before anything is sent,
\* outside every try, and session.request refuses a url without a scheme
CallRequest ==
    /\ h_pc = "off"
    /\ w_pc = "off"
    /\ \E url \in RequestUrls, method \in Methods, retries \in -1 .. MaxRetries :
        /\ h_url' = url
        /\ h_method' = method
        /\ h_retries' = retries
        /\ h_last' = NothingSent
        /\ IF ~UrlParse(url).ok
           THEN /\ h_pc' = "raised"
                /\ h_attempts' = <<>>
                /\ UNCHANGED <<h_retry, h_ret, h_meta>>
           ELSE IF url = <<>>
           THEN /\ Returns("None", "error")
                /\ h_attempts' = <<>>
           ELSE /\ h_pc' = "send"
                /\ h_retry' = NewRetry(retries)
                /\ h_attempts' = <<0>>
                /\ UNCHANGED <<h_ret, h_meta>>
    /\ UNCHANGED <<debug_cleaned, searchVars, notNetVars>>

\* the request is sent once and urlopen, then the Session, deal with what
\* came of it
Send ==
    /\ h_pc = "send"
    /\ h_attempts[Len(h_attempts)] < AttemptCap
    /\ \E o \in Outcomes :
        /\ h_last' = o
        /\ \E what \in {Urlopen(h_retry, h_method, o)} :
            CASE what = "retry" ->
                    /\ h_retry' = Increment(h_retry, o)
                    /\ h_attempts' = OneMoreAttempt
                    /\ UNCHANGED <<h_pc, h_method, h_ret, h_meta>>
              [] what = "error" ->
                    /\ Returns("None", "error")
                    /\ h_attempts' = OneMoreAttempt
                    /\ UNCHANGED h_method
              [] what = "final" /\ o.location /\ Len(h_attempts) <= MaxRedirects ->
                    \* the Session follows the redirect: a GET of the new
                    \* url, under the adapter's Retry afresh
                    /\ h_retry' = NewRetry(h_retries)
                    /\ h_attempts' = Append(OneMoreAttempt, 0)
                    /\ h_method' = "GET"
                    /\ UNCHANGED <<h_pc, h_ret, h_meta>>
              [] what = "final" /\ o.location /\ Len(h_attempts) > MaxRedirects ->
                    \* TooManyRedirects
                    /\ Returns("None", "error")
                    /\ h_attempts' = OneMoreAttempt
                    /\ UNCHANGED h_method
              [] what = "final" /\ ~o.location /\ o.status >= 200 /\ o.status < 400 ->
                    /\ Returns("response", "status")
                    /\ h_attempts' = OneMoreAttempt
                    /\ UNCHANGED h_method
              [] OTHER ->
                    /\ h_pc' = "dump"
                    /\ h_attempts' = OneMoreAttempt
                    /\ UNCHANGED <<h_retry, h_method, h_ret, h_meta>>
    /\ UNCHANGED <<h_url, h_retries, debug_cleaned, searchVars, notNetVars>>

\* what the file system does to _dump_fail_response: whether dumping is
\* switched on, and whether os.makedirs, os.listdir and the two writes succeed
FileSystems == [enabled : BOOLEAN, makedirs : BOOLEAN, listdir : BOOLEAN, write : BOOLEAN]

\* _dump_fail_response raises: none of its file operations is in a try, and
\* of _cleanup_old_debug_dirs only the removal is
DumpRaises(fs) ==
    /\ fs.enabled
    /\ \/ ~fs.makedirs
       \/ ~debug_cleaned /\ ~fs.listdir
       \/ ~fs.write

\* dump_path = _dump_fail_response(resp, logger), then meta.update and return None
Dump ==
    /\ h_pc = "dump"
    /\ \E fs \in FileSystems :
        /\ debug_cleaned' = (debug_cleaned \/ (fs.enabled /\ fs.makedirs))
        /\ IF DumpRaises(fs)
           THEN /\ h_pc' = "raised"
                /\ UNCHANGED <<h_retry, h_ret, h_meta>>
           ELSE Returns("None", "status")
    /\ UNCHANGED <<h_url, h_method, h_retries, h_attempts, h_last, searchVars, notNetVars>>

\* the caller goes on; _DEBUG_CLEANED_DIRS lives as long as the process
CallOver ==
    /\ h_pc \in {"returned", "raised"}
    /\ h_pc' = "off"
    /\ h_url' = <<>>
    /\ h_method' = "GET"
    /\ h_retries' = 0
    /\ h_retry' = NoRetry
    /\ h_attempts' = <<>>
    /\ h_last' = NothingSent
    /\ h_ret' = "-"
    /\ h_meta' = "clear"
    /\ UNCHANGED <<debug_cleaned, searchVars, notNetVars>>

(***************************************************************************)
(* web_search (src/core/searcher.py): per provider a loop of requests.get  *)
(***************************************************************************)

\* the most providers a call is given
MaxProviders == 2

\* range(max(1, retries + 1))
SearchTries == Max(1, w_retries + 1)

\* what one requests.get(url, ...) gives: 0 for an exception, else the
\* status of its response
GetResults == {0} \cup (Statuses \ {302}) \cup {304}

\* web_search is called; a provider is TRUE when _provider_url knows it
CallSearch ==
    /\ w_pc = "off"
    /\ h_pc = "off"
    /\ w_pc' = "loop"
    /\ w_providers' \in SeqsUpTo(BOOLEAN, MaxProviders)
    /\ w_retries' \in -2 .. MaxRetries
    /\ w_idx' = 0
    /\ w_try' = 0
    /\ w_requests' = 0
    /\ w_resp' = 0
    /\ UNCHANGED <<httpVars, notNetVars>>

\* url = _provider_url(provider, query); if not url: continue
SearchSkip ==
    /\ w_pc = "loop"
    /\ w_idx < Len(w_providers)
    /\ ~w_providers[w_idx + 1]
    /\ w_idx' = w_idx + 1
    /\ UNCHANGED <<w_pc, w_retries, w_providers, w_try, w_requests, w_resp, httpVars, notNetVars>>

\* one pass of the inner loop: requests.get, break on a 2xx/3xx response
\* (resp stays set only by the break), else resp = None
SearchGet ==
    /\ w_pc = "loop"
    /\ w_idx < Len(w_providers)
    /\ w_providers[w_idx + 1]
    /\ w_try < SearchTries
    /\ w_resp = 0
    /\ w_try' = w_try + 1
    /\ w_requests' = w_requests + 1
    /\ \E got \in GetResults :
        w_resp' = IF got >= 200 /\ got < 400 THEN got ELSE 0
    /\ UNCHANGED <<w_pc, w_retries, w_providers, w_idx, httpVars, notNetVars>>

\* the inner loop is left: if not resp: continue; else the links of the
\* response go to out; then the next provider
SearchNextProvider ==
    /\ w_pc = "loop"
    /\ w_idx < Len(w_providers)
    /\ w_providers[w_idx + 1]
    /\ w_resp # 0 \/ w_try >= SearchTries
    /\ w_idx' = w_idx + 1
    /\ w_try' = 0
    /\ w_requests' = 0
    /\ w_resp' = 0
    /\ UNCHANGED <<w_pc, w_retries, w_providers, httpVars, notNetVars>>

\* return out
SearchReturns ==
    /\ w_pc = "loop"
    /\ w_idx = Len(w_providers)
    /\ w_pc' = "returned"
    /\ UNCHANGED <<w_retries, w_providers, w_idx, w_try, w_requests, w_resp, httpVars, notNetVars>>

\* the caller goes on
SearchOver ==
    /\ w_pc = "returned"
    /\ w_pc' = "off"
    /\ w_retries' = 0
    /\ w_providers' = <<>>
    /\ w_idx' = 0
    /\ w_try' = 0
    /\ w_requests' = 0
    /\ w_resp' = 0
    /\ UNCHANGED <<httpVars, notNetVars>>

(***************************************************************************)
(* The network calls on their own                                          *)
(***************************************************************************)

InitHttp ==
    /\ cfg \in {c \in Configs : /\ c.tier = BreakerTiers
                                 /\ c.enabled = [s \in Sources |-> TRUE]
                                 /\ c.health_enabled
                                 /\ c.zero_threshold = DefaultZeroThreshold}
    /\ InitRun
    /\ InitDetailOff
    /\ InitNormOff
    /\ InitDedupOff
    /\ InitNetOff
    /\ InitFetchOff
    /\ InitMoreOff

NextHttp ==
    \/ CallRequest
    \/ Send
    \/ Dump
    \/ CallOver
    \/ CallSearch
    \/ SearchSkip
    \/ SearchGet
    \/ SearchNextProvider
    \/ SearchReturns
    \/ SearchOver

SpecHttp == InitHttp /\ [][NextHttp]_vars

\* a request under way is answered or times out (_normalize_timeout gives
\* every request a connect and a read timeout), and the code after it runs on
FairHttp ==
    /\ SpecHttp
    /\ WF_vars(Send)
    /\ WF_vars(Dump)
    /\ WF_vars(SearchSkip)
    /\ WF_vars(SearchGet)
    /\ WF_vars(SearchNextProvider)
    /\ WF_vars(SearchReturns)

(***************************************************************************)
(* C17: request_with_retry never fails its caller.  Once a request was     *)
(* sent, whatever came of it (a transport exception, a final response      *)
(* outside 2xx/3xx, an error while the failing response is persisted to    *)
(* the debug directory) the call does not raise, and a call that ended on  *)
(* a failure returned None and left the failure in _meta.                  *)
(***************************************************************************)

\* the latest send ended the call in a failure: an exception, or a response
\* outside 2xx/3xx
EndedInFailure ==
    \/ h_last.kind \in {"connect_error", "read_error"}
    \/ h_last.kind = "response" /\ (h_last.status < 200 \/ h_last.status >= 400)

NeverFailsCaller ==
    h_last.kind # "none" =>
        /\ h_pc # "raised"
        /\ (h_pc = "returned" /\ EndedInFailure) =>
                (h_ret = "None" /\ h_meta \in {"error", "status"})

\* the part of C17 that the code keeps: a call that returns after a failure
\* returns None with the failure recorded
FailureReturnsNone ==
    (h_pc = "returned" /\ EndedInFailure) => (h_ret = "None" /\ h_meta \in {"error", "status"})

(***************************************************************************)
(* C18: the retry policy.  A request is sent again only after a response   *)
(* with a status in {429, 500, 502, 503, 504} or after a connection-level  *)
(* error, and a response with any other 4xx status is terminal: the        *)
(* request it answers is not sent again.                                   *)
(***************************************************************************)

\* the request being sent was sent before and is about to be sent again
SendingAgain == h_pc = "send" /\ h_attempts[Len(h_attempts)] >= 1

\* the latest response is a client error outside RETRY_STATUS_CODES
OtherClientError ==
    /\ h_last.kind = "response"
    /\ h_last.status >= 400 /\ h_last.status < 500
    /\ h_last.status \notin RETRY_STATUS_CODES

RetryPolicy ==
    /\ SendingAgain =>
            \/ h_last.kind \in {"connect_error", "read_error"}
            \/ h_last.kind = "response" /\ h_last.status \in RETRY_STATUS_CODES
    /\ OtherClientError => h_pc \in {"dump", "returned", "raised"}

\* what the code keeps of the policy: the one response outside it that is
\* retried is a 413 that carries a Retry-After header
RetryPolicyButRetryAfter ==
    /\ SendingAgain =>
            \/ h_last.kind \in {"connect_error", "read_error"}
            \/ h_last.kind = "response" /\ h_last.status \in RETRY_STATUS_CODES
            \/ h_last.kind = "response" /\ h_last.status = 413 /\ h_last.retry_after
    /\ (OtherClientError /\ ~(h_last.status = 413 /\ h_last.retry_after)) =>
            h_pc \in {"dump", "returned", "raised"}

(***************************************************************************)
(* C19: bounded retries and termination.  An attempt is one send of a      *)
(* request; a redirect that the Session follows is a request of its own.   *)
(* request_with_retry with budget r sends each request at most             *)
(* max(0, r) + 1 times and follows at most MaxRedirects redirects;         *)
(* web_search makes at most max(1, r + 1) requests per provider and none   *)
(* after a 2xx/3xx response; and every call comes to its end, also when    *)
(* every attempt fails.                                                    *)
(***************************************************************************)

AttemptsWithinBudget ==
    /\ Len(h_attempts) <= MaxRedirects + 1
    /\ \A i \in DOMAIN h_attempts : h_attempts[i] <= Max(0, h_retries) + 1

RequestsWithinBudget == w_requests <= SearchTries

StopsAtFirstSuccess == w_requests' = w_requests + 1 => w_resp = 0

SearchBudgetSpent ==
    /\ w_pc = "loop"
    /\ w_retries = MaxRetries
    /\ w_requests = MaxRetries + 1
    /\ w_resp = 0

(***************************************************************************)
(* fetch_list of linkareer and breezyhr (src/crawlers/linkareer.py,        *)
(* src/crawlers/breezyhr.py) and the breaker file each keeps               *)
(***************************************************************************)

\* the last calendar day gone through
MaxDay == 3

\* BREAKER_504_THRESHOLD (linkareer)
BREAKER_504_THRESHOLD == 2

\* BREAKER_DNS_THRESHOLD (linkareer and breezyhr alike)
BREAKER_DNS_THRESHOLD == 2

\* state.get("day") of a dict without the key: None, which equals no day
NoDay == 0

\* a BREAKER_FILE that json.load rejects, and one whose JSON is not an object
InvalidFile == [kind |-> "invalid", data |-> EmptyDict]

NotObjectFile == [kind |-> "not_object", data |-> EmptyDict]

\* a BREAKER_FILE as _save_breaker wrote it
ObjectFile(data) == [kind |-> "object", data |-> data]

\* dict.get(key, default)
Get(d, key, default) == IF key \in DOMAIN d THEN d[key] ELSE default

\* _load_breaker: {} unless the file exists and holds a JSON object
LoadBreaker(file) == IF file.kind = "object" THEN file.data ELSE EmptyDict

\* _is_circuit_open without its comparison of the day
IsCircuitOpenAnyDay(state, day) ==
    \/ Get(state, "consecutive_504", 0) >= BREAKER_504_THRESHOLD
    \/ Get(state, "consecutive_dns", 0) >= BREAKER_DNS_THRESHOLD

\* linkareer._is_circuit_open
IsCircuitOpen(state, day) ==
    IF Get(state, "day", NoDay) # day THEN FALSE
    ELSE \/ Get(state, "consecutive_504", 0) >= BREAKER_504_THRESHOLD
         \/ Get(state, "consecutive_dns", 0) >= BREAKER_DNS_THRESHOLD

\* breezyhr._is_dns_circuit_open
IsDnsCircuitOpen(state, day) ==
    IF Get(state, "day", NoDay) # day THEN FALSE
    ELSE Get(state, "consecutive_dns", 0) >= BREAKER_DNS_THRESHOLD

\* the dict a mark starts from when the record is not of this day
FreshRecord(s, day) ==
    IF s = "linkareer"
    THEN [day |-> day, consecutive_504 |-> 0, consecutive_dns |-> 0]
    ELSE [day |-> day, consecutive_dns |-> 0]

\* the dict a mark counts on: the record of this day, else a fresh one
MarkBase(s, state, day) ==
    IF Get(state, "day", NoDay) # day THEN FreshRecord(s, day) ELSE state

\* _mark_504_failure and _mark_dns_failure: the file they leave
MarkFailure(s, key, file, day) ==
    ObjectFile([MarkBase(s, LoadBreaker(file), day) EXCEPT ![key] = @ + 1])

\* a reset that writes the other counter back as 0
KeptCountDropped(state, key, day) == 0

\* the other counter as a linkareer reset writes it back
KeptCount(state, key, day) ==
    IF Get(state, "day", NoDay) = day THEN Get(state, key, 0) ELSE 0

\* linkareer._reset_504_failure: the file it leaves
Reset504(file, day) ==
    IF Get(LoadBreaker(file), "day", NoDay) = day
       /\ Get(LoadBreaker(file), "consecutive_504", 0) = 0
    THEN file
    ELSE ObjectFile([day |-> day, consecutive_504 |-> 0,
                     consecutive_dns |-> KeptCount(LoadBreaker(file), "consecutive_dns", day)])

\* _reset_dns_failure of either crawler: the file it leaves
ResetDns(s, file, day) ==
    IF Get(LoadBreaker(file), "day", NoDay) = day
       /\ Get(LoadBreaker(file), "consecutive_dns", 0) = 0
    THEN file
    ELSE IF s = "linkareer"
    THEN ObjectFile([day |-> day,
                     consecutive_504 |-> KeptCount(LoadBreaker(file), "consecutive_504", day),
                     consecutive_dns |-> 0])
    ELSE ObjectFile([day |-> day, consecutive_dns |-> 0])

\* the file of the running crawler becomes file
Saved(file) == breaker_file' = [breaker_file EXCEPT ![f_source] = file]

\* this run goes into a strategy
Tries(strategy) == f_tried' = Append(f_tried, strategy)

\* fetch_list begins: the options are read and the circuit is looked up
FetchStart ==
    /\ f_pc = "idle"
    /\ \E s \in BreakerSources :
        /\ f_source' = s
        /\ f_loaded' = breaker_file[s]
        /\ circuit_open' = IF s = "linkareer"
                           THEN IsCircuitOpen(LoadBreaker(breaker_file[s]), today)
                           ELSE IsDnsCircuitOpen(LoadBreaker(breaker_file[s]), today)
        /\ f_pc' = IF s = "linkareer" THEN "search" ELSE "playwright"
    /\ render_enabled' \in BOOLEAN
    /\ f_urls' = FALSE
    /\ dns_failed' = FALSE
    /\ f_tried' = <<>>
    /\ UNCHANGED <<today, breaker_file, notFetchVars>>

\* linkareer 1) search first
LaSearch ==
    /\ f_pc = "search"
    /\ f_source = "linkareer"
    /\ f_urls' \in BOOLEAN
    /\ Tries("search")
    /\ f_pc' = "playwright"
    /\ UNCHANGED <<today, breaker_file, f_source, f_loaded, render_enabled, circuit_open, dns_failed,
                   notFetchVars>>

\* the Playwright strategy gone into whatever the circuit
PlaywrightRunsThoughOpen ==
    /\ render_enabled
    /\ f_source = "linkareer" => ~f_urls

\* the Playwright strategy is gone into: linkareer when nothing was found
\* yet, breezyhr first of all; both only if rendering is on and the circuit
\* closed
PlaywrightRuns ==
    /\ render_enabled
    /\ ~circuit_open
    /\ f_source = "linkareer" => ~f_urls

\* the Playwright strategy and its bookkeeping: a DNS failure without urls
\* is marked, urls reset the DNS count
Playwright ==
    /\ f_pc = "playwright"
    /\ f_source \in BreakerSources
    /\ f_pc' = "http"
    /\ IF PlaywrightRuns
       THEN /\ f_urls' \in BOOLEAN
            /\ dns_failed' \in BOOLEAN
            /\ Tries("playwright")
            /\ Saved(IF dns_failed' /\ ~f_urls'
                     THEN MarkFailure(f_source, "consecutive_dns", breaker_file[f_source], today)
                     ELSE IF f_urls'
                     THEN ResetDns(f_source, breaker_file[f_source], today)
                     ELSE breaker_file[f_source])
       ELSE UNCHANGED <<f_urls, dns_failed, f_tried, breaker_file>>
    /\ UNCHANGED <<today, f_source, f_loaded, render_enabled, circuit_open, notFetchVars>>

\* what request_with_retry gives fetch_list: a response, None after a 504,
\* None after a name resolution error, None after anything else
HttpResults == {"response", "504", "dns", "other"}

\* a direct request whose 504 and whose name resolution error are both counted
AfterHttpCountsBoth(s, got, file, day) ==
    IF got = "response"
    THEN IF s = "linkareer" THEN ResetDns(s, Reset504(file, day), day)
         ELSE ResetDns(s, file, day)
    ELSE IF got = "504" /\ s = "linkareer" THEN MarkFailure(s, "consecutive_504", file, day)
    ELSE IF got = "dns"
    THEN MarkFailure(s, "consecutive_dns", MarkFailure(s, "consecutive_dns", file, day), day)
    ELSE file

\* the breaker file after the direct request
AfterHttp(s, got, file, day) ==
    IF got = "response"
    THEN IF s = "linkareer" THEN ResetDns(s, Reset504(file, day), day)
         ELSE ResetDns(s, file, day)
    ELSE IF got = "504" /\ s = "linkareer" THEN MarkFailure(s, "consecutive_504", file, day)
    ELSE IF got = "dns" THEN MarkFailure(s, "consecutive_dns", file, day)
    ELSE file

\* the direct HTTP strategy and its bookkeeping
Http ==
    /\ f_pc = "http"
    /\ f_source \in BreakerSources
    /\ f_pc' = IF f_source = "linkareer" THEN "return" ELSE "search"
    /\ IF ~f_urls /\ ~circuit_open /\ ~dns_failed
       THEN /\ Tries("http")
            /\ \E got \in HttpResults :
                /\ f_urls' \in {found \in BOOLEAN : found => got = "response"}
                /\ Saved(AfterHttp(f_source, got, breaker_file[f_source], today))
       ELSE UNCHANGED <<f_urls, f_tried, breaker_file>>
    /\ UNCHANGED <<today, f_source, f_loaded, render_enabled, circuit_open, dns_failed, notFetchVars>>

\* a search fallback that an open circuit switches off as well
SearchRunsUnlessOpen == ~f_urls /\ ~circuit_open

\* breezyhr: if not urls, before the search fallback
SearchRuns == ~f_urls

\* breezyhr 3) search fallback
BzSearch ==
    /\ f_pc = "search"
    /\ f_source = "breezyhr"
    /\ f_pc' = "return"
    /\ IF SearchRuns
       THEN f_urls' \in BOOLEAN /\ Tries("search")
       ELSE UNCHANGED <<f_urls, f_tried>>
    /\ UNCHANGED <<today, breaker_file, f_source, f_loaded, render_enabled, circuit_open, dns_failed,
                   notFetchVars>>

\* return [ ... for u in urls[:max_items]]
FetchReturns ==
    /\ f_pc = "return"
    /\ f_pc' = "idle"
    /\ UNCHANGED <<today, breaker_file, f_source, f_loaded, render_enabled, circuit_open, f_urls,
                   dns_failed, f_tried, notFetchVars>>

\* the calendar day changes, between runs or in the middle of one
Midnight ==
    /\ today < MaxDay
    /\ today' = today + 1
    /\ UNCHANGED <<breaker_file, f_pc, f_source, f_loaded, render_enabled, circuit_open, f_urls,
                   dns_failed, f_tried, notFetchVars>>

\* SpecFetch: runs of both crawlers over the days, from breaker files that
\* are missing or unreadable
InitFetch ==
    /\ cfg \in {c \in Configs : /\ c.tier = BreakerTiers
                                 /\ c.enabled = [s \in Sources |-> TRUE]
                                 /\ c.health_enabled
                                 /\ c.zero_threshold = DefaultZeroThreshold}
    /\ InitRun
    /\ InitDetailOff
    /\ InitNormOff
    /\ InitDedupOff
    /\ InitNetOff
    /\ InitMoreOff
    /\ today = 1
    /\ breaker_file \in [BreakerSources -> {NoFile, InvalidFile, NotObjectFile}]
    /\ f_pc = "idle"
    /\ f_source = "linkareer"
    /\ render_enabled = FALSE
    /\ circuit_open = FALSE
    /\ f_urls = FALSE
    /\ dns_failed = FALSE
    /\ f_tried = <<>>
    /\ f_loaded = NoFile

NextFetch ==
    \/ FetchStart
    \/ LaSearch
    \/ Playwright
    \/ Http
    \/ BzSearch
    \/ FetchReturns
    \/ Midnight

SpecFetch == InitFetch /\ [][NextFetch]_vars

(***************************************************************************)
(* C20: the day-scoped breaker.  At the start of a fetch_list run the      *)
(* circuit of linkareer / breezyhr is open if and only if the breaker file *)
(* holds a record whose day is today and in which a counter of the crawler *)
(* (consecutive_dns, for linkareer also consecutive_504) has reached its   *)
(* threshold; a file that is missing or unreadable, and a record of        *)
(* another day, leave it closed.                                           *)
(***************************************************************************)

\* the file of crawler s holds today's record with a counter at its threshold
OpenByRecord(s) ==
    /\ breaker_file[s].kind = "object"
    /\ breaker_file[s].data.day = today
    /\ \/ breaker_file[s].data.consecutive_dns >= BREAKER_DNS_THRESHOLD
       \/ s = "linkareer" /\ breaker_file[s].data.consecutive_504 >= BREAKER_504_THRESHOLD

ClosedOnEarlierDay ==
    /\ f_pc \in {"search", "playwright"}
    /\ f_tried = <<>>
    /\ ~circuit_open
    /\ breaker_file[f_source].kind = "object"
    /\ breaker_file[f_source].data.day < today
    /\ breaker_file[f_source].data.consecutive_dns >= BREAKER_DNS_THRESHOLD

(***************************************************************************)
(* C21: the lifetime of an open circuit.  Once the circuit of a crawler    *)
(* has opened on a day, it stays open for the rest of that day: every run  *)
(* that starts later on the day finds it open and goes into neither the    *)
(* Playwright nor the direct HTTP strategy.  A run that starts on a later  *)
(* day finds it closed and goes into those strategies as a run without     *)
(* history does: Playwright when rendering is on (linkareer: and the       *)
(* search found nothing), direct HTTP when there are no urls and no DNS    *)
(* failure.                                                                *)
(***************************************************************************)

\* a step that begins a fetch_list run
Starts == f_pc = "idle" /\ f_pc' # "idle"

\* the direct strategies this run has gone into
DirectTried == {f_tried[i] : i \in DOMAIN f_tried} \cap {"playwright", "http"}

\* no step within a day closes an open circuit
StaysOpenThroughDay ==
    \A s \in BreakerSources :
        (OpenByRecord(s) /\ today' = today) => OpenByRecord(s)'

\* a run that starts over an open circuit finds it open
FoundOpen == (Starts /\ OpenByRecord(f_source')) => circuit_open'

\* a run that starts over a record of an earlier day finds the circuit closed
ClosedNextDay ==
    (Starts /\ breaker_file[f_source'].kind = "object"
            /\ breaker_file[f_source'].data.day < today) => ~circuit_open'

\* a run that found the circuit open goes into no direct strategy
OpenSkipsDirect == (f_pc # "idle" /\ circuit_open) => DirectTried = {}

\* a run that found the circuit closed has gone into Playwright and direct
\* HTTP wherever a run without history does
ClosedTriesDirect ==
    (f_pc # "idle" /\ ~circuit_open) =>
        /\ (f_pc \in {"http", "return"} /\ render_enabled /\ f_source = "breezyhr")
                => "playwright" \in DirectTried
        /\ (f_pc = "http" /\ render_enabled /\ f_source = "linkareer" /\ ~f_urls)
                => "playwright" \in DirectTried
        /\ ((f_pc = "return" /\ f_source = "linkareer") \/ (f_pc = "search" /\ f_source = "breezyhr"))
                => ("http" \in DirectTried \/ f_urls \/ dns_failed)

BreakerLifetime ==
    /\ [][StaysOpenThroughDay /\ FoundOpen /\ ClosedNextDay]_vars
    /\ [](OpenSkipsDirect /\ ClosedTriesDirect)

\* a linkareer run that began over the circuit an earlier run of the day left
\* open is at its end, having gone into the search alone
BreakerLifetimeWitness ==
    /\ f_pc = "return"
    /\ f_source = "linkareer"
    /\ render_enabled
    /\ ~f_urls
    /\ circuit_open
    /\ OpenByRecord("linkareer")
    /\ f_tried = <<"search">>

\* a run that began on the day after the circuit opened has gone into both
\* direct strategies
TriedDirectNextDay ==
    /\ f_pc \in {"return", "search"}
    /\ ~circuit_open
    /\ DirectTried = {"playwright", "http"}
    /\ breaker_file[f_source].kind = "object"
    /\ breaker_file[f_source].data.day < today
    /\ breaker_file[f_source].data.consecutive_dns >= BREAKER_DNS_THRESHOLD

(***************************************************************************)
(* C22: class-specific circuits.  A failure class at its threshold makes   *)
(* a run skip the strategy of that class only: a linkareer run with        *)
(* rendering on whose search found nothing skips the Playwright strategy   *)
(* only when the record's DNS counter is at its threshold; 504 failures of *)
(* the direct HTTP strategy alone do not make it skip Playwright.          *)
(***************************************************************************)

\* the step in which a linkareer run passes the Playwright strategy by
\* although rendering is on and there are no urls yet
LaSkipsPlaywright ==
    /\ f_pc = "playwright" /\ f_pc' = "http"
    /\ f_source = "linkareer"
    /\ render_enabled
    /\ ~f_urls
    /\ f_tried' = f_tried

\* the record of crawler s has its DNS counter at the threshold
DnsAtThreshold(s) ==
    /\ breaker_file[s].kind = "object"
    /\ breaker_file[s].data.consecutive_dns >= BREAKER_DNS_THRESHOLD

ClassSpecificCircuits == [][LaSkipsPlaywright => DnsAtThreshold("linkareer")]_vars

\* what the code keeps: Playwright is passed by only over a record in which
\* one of the two counters is at its threshold
SkipsOnSomeCounter ==
    [][LaSkipsPlaywright =>
            /\ breaker_file["linkareer"].kind = "object"
            /\ \/ breaker_file["linkareer"].data.consecutive_dns >= BREAKER_DNS_THRESHOLD
               \/ breaker_file["linkareer"].data.consecutive_504 >= BREAKER_504_THRESHOLD]_vars

(***************************************************************************)
(* C23: an open circuit does not switch the source off.  A run of          *)
(* linkareer or breezyhr that found its circuit open still goes into the   *)
(* search strategy, and into that alone, and what the search finds is what *)
(* the run returns.                                                        *)
(***************************************************************************)

\* at its return, a run over an open circuit has gone into the search alone
OpenRunSearched == (f_pc = "return" /\ circuit_open) => f_tried = <<"search">>

\* in a run over an open circuit no urls are there before the search, and
\* urls once found stay until the return
OpenRunKeepsFound ==
    /\ (circuit_open /\ f_pc # "idle" /\ f_tried = <<>>) => ~f_urls
    /\ (circuit_open /\ f_pc # "idle" /\ f_urls) => f_urls'

OpenStillSearches == [](OpenRunSearched) /\ [][OpenRunKeepsFound]_vars

\* a breezyhr run over an open circuit is about to return urls that its
\* search found
OpenStillSearchesWitness ==
    /\ f_pc = "return"
    /\ f_source = "breezyhr"
    /\ circuit_open
    /\ OpenByRecord("breezyhr")
    /\ f_tried = <<"search">>
    /\ f_urls

(***************************************************************************)
(* run_crawlers over a health file of any content                          *)
(***************************************************************************)

\* what can be at the path without being a JSON object
DamagedDisks == {"missing", "unreadable", "invalid", "not_object"}

\* the records of a health file that is a JSON object: none, a count, a
\* record that is not an object, a record whose count is not a number
EntryChoices == {NoEntry, 0, 1, NotADictEntry, BadCountEntry}

\* line 158 raises on the record of the current source, outside the try
GuardRaises ==
    /\ UNCHANGED notRunVars
    /\ pc = "loop"
    /\ idx <= Len(ordered_sources)
    /\ cfg.enabled[CurrentSource]
    /\ HealthGuardRaises(CurrentSource)
    /\ pc' = "raised"
    /\ UNCHANGED <<cfg, health_file, health_disk, source_health, ordered_sources, idx, results,
                   running, called, attempts, last, start_file, streak, start_streak>>

\* _save_source_health raises at line 187: a file that cannot be opened for
\* reading may not open for writing either
SaveRaises ==
    /\ UNCHANGED notRunVars
    /\ pc = "loop"
    /\ idx > Len(ordered_sources)
    /\ cfg.health_enabled
    /\ health_disk = "unreadable"
    /\ pc' = "raised"
    /\ UNCHANGED <<cfg, health_file, health_disk, source_health, ordered_sources, idx, results,
                   running, called, attempts, last, start_file, streak, start_streak>>

\* SpecHealthFile: runs with the lowest threshold, from every content of the
\* health file
InitHealthFile ==
    /\ cfg \in {c \in Configs : /\ c.tier = BreakerTiers
                                 /\ c.enabled["a"] /\ c.enabled["b"]
                                 /\ c.zero_threshold = 1}
    /\ \/ health_disk \in DamagedDisks /\ health_file = EmptyHealth
       \/ health_disk = "object" /\ health_file \in [Sources -> EntryChoices]
    /\ InitRunLocals
    /\ InitDetailOff
    /\ InitNormOff
    /\ InitDedupOff
    /\ InitNetOff
    /\ InitFetchOff
    /\ InitMoreOff

NextHealthFile ==
    \/ Next
    \/ GuardRaises
    \/ SaveRaises

SpecHealthFile == InitHealthFile /\ [][NextHealthFile]_vars

(***************************************************************************)
(* C24: health-file tolerance.  Whatever is in the health file (nothing,   *)
(* something unreadable, invalid JSON, JSON that is not an object, an      *)
(* object with malformed records), run_crawlers does not raise, reads a    *)
(* file that is not an object as no history, and attempts every enabled    *)
(* source whose record is absent or malformed.                             *)
(***************************************************************************)

\* a file that is not an object is loaded as no history
DamagedIsNoHistory ==
    (pc \in {"idle", "done"} /\ pc' = "loop" /\ health_disk \in DamagedDisks)
        => source_health' = EmptyHealth

\* a finished run has called every enabled source that had no well-formed
\* record when it started
NoRecordIsAttempted ==
    pc = "done" =>
        \A s \in Sources :
            (cfg.enabled[s] /\ start_file[s] \in {NoEntry, NotADictEntry, BadCountEntry})
                => s \in called

HealthFileTolerance ==
    /\ [](pc # "raised")
    /\ [](NoRecordIsAttempted)
    /\ [][DamagedIsNoHistory]_vars

\* what the code keeps: over a file that is not a JSON object, and over an
\* object of well-formed records, the guard does not raise and the sources
\* without a record are attempted
ToleratesNonObjects ==
    /\ [](pc = "raised" => (\/ \E s \in Sources : start_file[s] \in {NotADictEntry, BadCountEntry}
                            \/ health_disk = "unreadable"))
    /\ [](NoRecordIsAttempted)
    /\ [][DamagedIsNoHistory]_vars

-----------------------------------------------------------------------------
(* _run_source (src/jobbot.py) up to the normalization loop: the driver thread *)
(* picks the adapter's capability, calls fetch_list or crawl itself, and hands  *)
(* the list to _fetch_details_parallel, whose steps are the actions above.      *)

\* what fetch_list or crawl may hand back as a list: up to MaxList records, all of
\* one shape, as the keys of a record bear neither on the dispatch nor on the pool
ReturnedLists == SeqsUpTo({r \in ListRecords : DOMAIN r = {"url"}}, MaxList)

\* if hasattr(module, "fetch_list"): list_items = module.fetch_list(opts, cfg, logger)
CallFetchList ==
    /\ s_pc = "start"
    /\ has_fetch_list
    /\ s_pc' = "fetch_list"
    /\ s_calls' = Append(s_calls, "fetch_list")
    /\ UNCHANGED <<has_fetch_list, has_crawl, detailVars, notSourceVars>>

\* fetch_list returns a list: raw_jobs = _fetch_details_parallel(module, ..., list_items, ...)
FetchListReturnsList ==
    /\ s_pc = "fetch_list"
    /\ list_items' \in ReturnedLists
    /\ d_pc' = "called"
    /\ s_pc' = "details"
    /\ UNCHANGED <<has_fetch_list, has_crawl, s_calls, has_fetch_detail, workers, max_items,
                   task, detailed, retval, notSourceVars>>

\* if not isinstance(list_items, list): return []
FetchListReturnsOther ==
    /\ s_pc = "fetch_list"
    /\ retval' = <<>>
    /\ s_pc' = "returned"
    /\ UNCHANGED <<has_fetch_list, has_crawl, s_calls, d_pc, has_fetch_detail, list_items,
                   workers, max_items, task, detailed, notSourceVars>>

\* fetch_list raises: nothing in _run_source catches it
FetchListRaises ==
    /\ s_pc = "fetch_list"
    /\ s_pc' = "raised"
    /\ UNCHANGED <<has_fetch_list, has_crawl, s_calls, detailVars, notSourceVars>>

\* _fetch_details_parallel has returned: raw_jobs is bound and the loop over it begins
DetailsReturn ==
    /\ s_pc = "details"
    /\ d_pc = "returned"
    /\ s_pc' = "normalize"
    /\ UNCHANGED <<has_fetch_list, has_crawl, s_calls, detailVars, notSourceVars>>

\* a dispatch that prefers crawl wherever the adapter has it
CrawlChosenFirst == has_crawl

\* elif hasattr(module, "crawl"):
CrawlChosen == ~has_fetch_list /\ has_crawl

\* raw_jobs = module.crawl(opts, cfg, logger), called
CallCrawl ==
    /\ s_pc = "start"
    /\ CrawlChosen
    /\ s_pc' = "crawl"
    /\ s_calls' = Append(s_calls, "crawl")
    /\ UNCHANGED <<has_fetch_list, has_crawl, detailVars, notSourceVars>>

\* crawl returns its records: raw_jobs is bound and the loop over it begins
CrawlReturns ==
    /\ s_pc = "crawl"
    /\ retval' \in ReturnedLists
    /\ s_pc' = "normalize"
    /\ UNCHANGED <<has_fetch_list, has_crawl, s_calls, d_pc, has_fetch_detail, list_items,
                   workers, max_items, task, detailed, notSourceVars>>

\* crawl raises: nothing in _run_source catches it
CrawlRaises ==
    /\ s_pc = "crawl"
    /\ s_pc' = "raised"
    /\ UNCHANGED <<has_fetch_list, has_crawl, s_calls, detailVars, notSourceVars>>

\* else: logger.warning("source=%s has no fetch_list/crawl"); return []
NoCapability ==
    /\ s_pc = "start"
    /\ ~has_fetch_list
    /\ ~has_crawl
    /\ retval' = <<>>
    /\ s_pc' = "returned"
    /\ UNCHANGED <<has_fetch_list, has_crawl, s_calls, d_pc, has_fetch_detail, list_items,
                   workers, max_items, task, detailed, notSourceVars>>

\* SpecSource: one call of _run_source for an adapter with any set of capabilities
InitSource ==
    /\ cfg \in {c \in Configs : /\ c.tier = BreakerTiers
                                 /\ c.enabled = [s \in Sources |-> TRUE]
                                 /\ c.health_enabled
                                 /\ c.zero_threshold = DefaultZeroThreshold}
    /\ InitRun
    /\ d_pc = "off"
    /\ has_fetch_detail \in BOOLEAN
    /\ list_items = <<>>
    /\ workers \in 0..MaxWorkers
    /\ max_items \in 0..MaxItems
    /\ task = <<>>
    /\ detailed = <<>>
    /\ retval = <<>>
    /\ InitNormOff
    /\ InitDedupOff
    /\ InitNetOff
    /\ InitFetchOff
    /\ s_pc = "start"
    /\ has_fetch_list \in BOOLEAN
    /\ has_crawl \in BOOLEAN
    /\ s_calls = <<>>
    /\ InitDbOff
    /\ InitThreadsOff

NextSource ==
    \/ CallFetchList
    \/ FetchListReturnsList
    \/ FetchListReturnsOther
    \/ FetchListRaises
    \/ ReturnListItems
    \/ SubmitAll
    \/ WorkerStart
    \/ WorkerFinish
    \/ Collect
    \/ ReturnDetailed
    \/ DetailsReturn
    \/ CallCrawl
    \/ CrawlReturns
    \/ CrawlRaises
    \/ NoCapability

SpecSource == InitSource /\ [][NextSource]_vars

(***************************************************************************)
(* C25: bounded detail fan-out.  For a source with fetch_detail the        *)
(* candidates submitted are the first max_items of the list, in list order *)
(* (candidate i of the pool is list_items[i]), at most max_items of them;  *)
(* each is submitted once and its fetch_detail call begins once; never are *)
(* more than max(1, workers) fetch_detail calls executing at the same      *)
(* time; and fetch_list has been called and has returned on the driver     *)
(* thread before any candidate is submitted.                               *)
(***************************************************************************)

\* the candidates whose fetch_detail call is executing
Executing == {i \in DOMAIN task : task[i].st = "running"}

\* how far a submitted candidate has come
Progress(st) == CASE st = "queued" -> 0 [] st = "running" -> 1 [] st = "done" -> 2
                  [] st = "collected" -> 3

\* at most max_items candidates, the first ones of the list, once the pool has them
SubmittedArePrefix ==
    /\ Len(task) <= max_items
    /\ Len(task) <= Len(list_items)
    /\ (has_fetch_detail /\ d_pc \in {"collect", "returned"}) =>
           DOMAIN task = 1..(IF Len(list_items) < max_items THEN Len(list_items) ELSE max_items)
    /\ ~has_fetch_detail => task = <<>>

\* never more than max(1, workers) calls at once
WithinPool == Cardinality(Executing) <= (IF workers < 1 THEN 1 ELSE workers)

\* nothing is submitted before fetch_list has returned, and fetch_list is called once
ListBeforeDetails ==
    /\ s_pc \in {"start", "fetch_list"} => task = <<>> /\ d_pc = "off"
    /\ task # <<>> => s_calls = <<"fetch_list">>

\* a candidate is submitted once and its call begins once: the set of submitted
\* candidates changes only when all are submitted together, and a candidate
\* never falls back to an earlier stage
SubmittedOnce ==
    /\ DOMAIN task' # DOMAIN task => task = <<>> /\ d_pc = "called"
    /\ \A i \in DOMAIN task \cap DOMAIN task' :
        /\ Progress(task'[i].st) >= Progress(task[i].st)
        /\ Progress(task'[i].st) <= Progress(task[i].st) + 1

BoundedFanOut ==
    /\ [](SubmittedArePrefix /\ WithinPool /\ ListBeforeDetails)
    /\ [][SubmittedOnce]_vars

\* the pool is full, with candidates still waiting, after a list longer than max_items
BoundedFanOutWitness ==
    /\ s_pc = "details"
    /\ has_fetch_detail
    /\ Len(list_items) > max_items
    /\ Len(task) = max_items
    /\ Cardinality(Executing) = workers
    /\ workers >= 1
    /\ \E i \in DOMAIN task : task[i].st = "queued"

(***************************************************************************)
(* C26: capability dispatch.  For an adapter with crawl and no fetch_list, *)
(* _run_source calls crawl, once, and no fetch_detail call is ever         *)
(* submitted; crawl is called only when fetch_list is absent, so an        *)
(* adapter with both goes the list/detail way and its crawl is never       *)
(* called; an adapter with neither gets [] back and nothing is raised.     *)
(***************************************************************************)

\* the times the driver has called the adapter function f
Calls(f) == Cardinality({i \in DOMAIN s_calls : s_calls[i] = f})

\* _run_source is past the dispatch and what it called has ended
Dispatched == s_pc \in {"normalize", "returned", "raised"}

CrawlOnlyOnce ==
    (~has_fetch_list /\ has_crawl) =>
        /\ Calls("fetch_list") = 0
        /\ task = <<>>
        /\ d_pc = "off"
        /\ Calls("crawl") <= 1
        /\ s_pc # "start" => Calls("crawl") = 1

CrawlOnlyWithoutList ==
    /\ Calls("crawl") > 0 => ~has_fetch_list
    /\ has_fetch_list => (s_pc # "start" => Calls("fetch_list") = 1)

NeitherIsEmpty ==
    (~has_fetch_list /\ ~has_crawl) =>
        /\ s_calls = <<>>
        /\ s_pc \in {"start", "returned"}
        /\ s_pc = "returned" => retval = <<>>

CapabilityDispatch == CrawlOnlyOnce /\ CrawlOnlyWithoutList /\ NeitherIsEmpty

\* crawl of an adapter that also has fetch_detail has returned its records
CapabilityDispatchWitness ==
    /\ ~has_fetch_list
    /\ has_crawl
    /\ has_fetch_detail
    /\ s_pc = "normalize"
    /\ s_calls = <<"crawl">>
    /\ retval # <<>>

\* an adapter with both capabilities has come through the list/detail way
BothGoesListWay ==
    /\ has_fetch_list
    /\ has_crawl
    /\ s_pc = "normalize"
    /\ s_calls = <<"fetch_list">>
    /\ \E i \in DOMAIN task : task[i].st = "collected"

\* an adapter with neither capability was handed []
NeitherReturned ==
    /\ ~has_fetch_list
    /\ ~has_crawl
    /\ s_pc = "returned"

-----------------------------------------------------------------------------
(* upsert_jobs (src/core/db.py) on the jobs table of init_db: the one unique   *)
(* key is uk_jobs_url_hash; tc_hash is a plain column.  A row is modelled by   *)
(* the columns the two statements tell apart; created_at stands for the        *)
(* columns both statements overwrite.                                          *)

DbUrls == {HttpX \o <<"/", "a">>, HttpX \o <<"/", "b">>}

DbTitles == {TitleRobot1, TitleRobot2}

\* the Postings main passes on: those of one batch differ in url and in
\* title+company, as deduplicate_jobs leaves them
DbPostings == [url : DbUrls, title : DbTitles, company : {Acme}]

Batches ==
    {b \in SeqsUpTo(DbPostings, MaxBatch) :
        /\ b # <<>>
        /\ \A i, j \in DOMAIN b :
            i # j => /\ b[i].url # b[j].url
                     /\ TitleCompanyHash(b[i].title, b[i].company)
                            # TitleCompanyHash(b[j].title, b[j].company)}

\* rows.append((..., job.get("url"), hash_text(url), ..., title_company_hash(...), ..., now, ...))
RowOf(job, now) ==
    [url |-> job.url, url_hash |-> HashText(job.url), title |-> job.title,
     company |-> job.company, tc_hash |-> TitleCompanyHash(job.title, job.company),
     created_at |-> now]

\* UPDATE jobs SET source, url, url_hash, title, company, ..., created_at, ... WHERE tc_hash=%s
UpdateByTc(r, row) ==
    [r EXCEPT !.url = row.url, !.url_hash = row.url_hash, !.title = row.title,
              !.company = row.company, !.created_at = row.created_at]

\* ON DUPLICATE KEY UPDATE url, title, company, ..., created_at, ...: neither
\* url_hash nor tc_hash is among the columns assigned
OnDuplicateKey(r, row) ==
    [r EXCEPT !.url = row.url, !.title = row.title, !.company = row.company,
              !.created_at = row.created_at]

\* UNIQUE KEY uk_jobs_url_hash (url_hash): another row holds the value
DuplicateEntry(rows, r, changed) == \E o \in rows \ {r} : o.url_hash = changed.url_hash

\* cur.execute(insert_sql, row)
AfterInsert(rows, row) ==
    IF \E r \in rows : r.url_hash = row.url_hash
    THEN {IF r.url_hash = row.url_hash THEN OnDuplicateKey(r, row) ELSE r : r \in rows}
    ELSE rows \cup {row}

\* upsert_jobs is called: now is read and the rows are built
CallUpsert ==
    /\ db_pc = "idle"
    /\ db_jobs' \in Batches
    /\ db_now' \in {n \in {db_now, db_now + 1} : n <= MaxNow}
    /\ db_idx' = 0
    /\ db_before' = table
    /\ db_pc' = "loop"
    /\ UNCHANGED <<table, committed, notDbVars>>

\* one pass of "for row in rows": the UPDATE by tc_hash, which fails on a
\* duplicate url_hash, and the INSERT if the UPDATE changed no row
UpsertRow ==
    /\ db_pc = "loop"
    /\ db_idx < Len(db_jobs)
    /\ \E row \in {RowOf(db_jobs[db_idx + 1], db_now)} :
        \E hit \in {{r \in table : r.tc_hash = row.tc_hash}} :
            IF hit = {}
            THEN /\ table' = AfterInsert(table, row)
                 /\ db_idx' = db_idx + 1
                 /\ db_pc' = "loop"
            ELSE \E r \in hit :
                    IF DuplicateEntry(table, r, UpdateByTc(r, row))
                    THEN /\ db_pc' = "raised"
                         /\ UNCHANGED <<table, db_idx>>
                    ELSE /\ table' = IF UpdateByTc(r, row) # r
                                     THEN (table \ {r}) \cup {UpdateByTc(r, row)}
                                     ELSE AfterInsert(table, row)
                         /\ db_idx' = db_idx + 1
                         /\ db_pc' = "loop"
    /\ UNCHANGED <<committed, db_jobs, db_now, db_before, notDbVars>>

\* conn.commit()
Commit ==
    /\ db_pc = "loop"
    /\ db_idx = Len(db_jobs)
    /\ committed' = table
    /\ db_pc' = "idle"
    /\ UNCHANGED <<table, db_jobs, db_idx, db_now, db_before, notDbVars>>

\* the IntegrityError ends main; the connection is lost with its transaction
\* and the next process finds the table as last committed
NextProcess ==
    /\ db_pc = "raised"
    /\ table' = committed
    /\ db_pc' = "idle"
    /\ UNCHANGED <<committed, db_jobs, db_idx, db_now, db_before, notDbVars>>

\* SpecDb: calls of upsert_jobs, one after the other, on a table that starts empty
InitDb ==
    /\ cfg \in {c \in Configs : /\ c.tier = BreakerTiers
                                 /\ c.enabled = [s \in Sources |-> TRUE]
                                 /\ c.health_enabled
                                 /\ c.zero_threshold = DefaultZeroThreshold}
    /\ InitRun
    /\ InitDetailOff
    /\ InitNormOff
    /\ InitDedupOff
    /\ InitNetOff
    /\ InitFetchOff
    /\ InitMoreOff

NextDb ==
    \/ CallUpsert
    \/ UpsertRow
    \/ Commit
    \/ NextProcess

SpecDb == InitDb /\ [][NextDb]_vars

(***************************************************************************)
(* C27: idempotent upsert.  Once a Posting is stored, upserting a Posting  *)
(* with the same url, or with the same title+company under another url,    *)
(* updates the row there is and leaves the number of rows as it was; and   *)
(* upsert_jobs never fails because the url hash or the title+company hash  *)
(* of a Posting is already in the table.                                   *)
(***************************************************************************)

\* the Posting the loop is at
CurrentPosting == db_jobs[db_idx + 1]

\* the loop is about to upsert a Posting
AtPosting == db_pc = "loop" /\ db_idx < Len(db_jobs)

\* the table holds a Posting with the url of job
StoredUrl(job) == \E r \in table : r.url = job.url

\* the table holds a Posting with the title+company of job
StoredTitleCompany(job) ==
    \E r \in table :
        TitleCompanyHash(r.title, r.company) = TitleCompanyHash(job.title, job.company)

IdempotentUpsert ==
    /\ [](db_pc # "raised")
    /\ [][(AtPosting /\ (StoredUrl(CurrentPosting) \/ StoredTitleCompany(CurrentPosting)))
              => Cardinality(table') = Cardinality(table)]_vars

\* what does hold: url_hash stays unique, and a Posting whose url is stored
\* adds no row when it is upserted
StoredUrlAddsNoRow ==
    /\ [](\A r, o \in table : r.url_hash = o.url_hash => r = o)
    /\ [][(AtPosting /\ StoredUrl(CurrentPosting))
              => Cardinality(table') = Cardinality(table)]_vars

\* a Posting was upserted again within the same second and nothing changed
UnchangedReupsert ==
    /\ db_pc = "loop"
    /\ db_idx = 1
    /\ RowOf(db_jobs[1], db_now) \in db_before
    /\ table = db_before

-----------------------------------------------------------------------------
(* Threads inside request_with_retry (src/crawlers/common.py) at the same time, *)
(* as the workers of the detail pool are: _get_session under _SESSION_LOCK, the *)
(* request, and for a failure response _dump_fail_response with the clean-up of *)
(* the debug root, whose set _DEBUG_CLEANED_DIRS no lock guards.  A step is a   *)
(* statement (or the body of the with block once the lock is held); a Session   *)
(* is named by the number of its construction.                                  *)

httpCallVars == <<h_pc, h_url, h_method, h_retries, h_retry, h_attempts, h_last, h_ret, h_meta>>

\* the key of thread t in _SESSIONS
SessionKey(t) == RetryTotal(t_retries[t])

\* the Sessions constructed so far
AllCreated == UNION {created[k] : k \in DOMAIN created}

\* thread t is at "at" and goes to "to"
Goes(t, at, to) == t_pc[t] = at /\ t_pc' = [t_pc EXCEPT ![t] = to]

\* a worker calls request_with_retry(method, url, timeout, retries, logger)
ThreadCalls ==
    \E t \in Threads, r \in RetryArgs :
        /\ Goes(t, "idle", "lock")
        /\ t_retries' = [t_retries EXCEPT ![t] = r]
        /\ t_session' = [t_session EXCEPT ![t] = 0]
        /\ UNCHANGED <<sessions, session_lock, created, prunes, debug_cleaned, httpCallVars,
                       notThreadVars>>

\* a with statement that goes in whoever holds the lock
LockIgnored == TRUE

\* with _SESSION_LOCK: the lock can be taken
LockIsFree == session_lock = 0

\* with _SESSION_LOCK:
AcquireLock ==
    \E t \in Threads :
        /\ Goes(t, "lock", "get")
        /\ LockIsFree
        /\ session_lock' = t
        /\ UNCHANGED <<t_retries, t_session, sessions, created, prunes, debug_cleaned,
                       httpCallVars, notThreadVars>>

\* existing = _SESSIONS.get(retry_total); if existing is not None: return existing
GetExisting ==
    \E t \in Threads :
        /\ Goes(t, "get", "request")
        /\ sessions[SessionKey(t)] # 0
        /\ t_session' = [t_session EXCEPT ![t] = sessions[SessionKey(t)]]
        /\ session_lock' = 0
        /\ UNCHANGED <<t_retries, sessions, created, prunes, debug_cleaned, httpCallVars,
                       notThreadVars>>

\* existing is None: session = requests.Session() and its adapter are built
GetMissing ==
    \E t \in Threads :
        /\ Goes(t, "get", "create")
        /\ sessions[SessionKey(t)] = 0
        /\ UNCHANGED <<t_retries, t_session, sessions, session_lock, created, prunes,
                       debug_cleaned, httpCallVars, notThreadVars>>

\* _SESSIONS[retry_total] = session; return session
StoreSession ==
    \E t \in Threads :
        /\ Goes(t, "create", "request")
        /\ \E new \in {Cardinality(AllCreated) + 1} :
            /\ created' = [created EXCEPT ![SessionKey(t)] = @ \cup {new}]
            /\ sessions' = [sessions EXCEPT ![SessionKey(t)] = new]
            /\ t_session' = [t_session EXCEPT ![t] = new]
        /\ session_lock' = 0
        /\ UNCHANGED <<t_retries, prunes, debug_cleaned, httpCallVars, notThreadVars>>

\* session.request raises, or answers with a status from 200 to 399: return
RequestEnds ==
    \E t \in Threads :
        /\ Goes(t, "request", "done")
        /\ UNCHANGED <<t_retries, t_session, sessions, session_lock, created, prunes,
                       debug_cleaned, httpCallVars, notThreadVars>>

\* a failure response: _dump_fail_response makes out_dir and calls the clean-up
RequestFails ==
    \E t \in Threads :
        /\ Goes(t, "request", "check")
        /\ UNCHANGED <<t_retries, t_session, sessions, session_lock, created, prunes,
                       debug_cleaned, httpCallVars, notThreadVars>>

\* if base_dir in _DEBUG_CLEANED_DIRS: return
CleanupReturns ==
    \E t \in Threads :
        /\ Goes(t, "check", "done")
        /\ debug_cleaned
        /\ UNCHANGED <<t_retries, t_session, sessions, session_lock, created, prunes,
                       debug_cleaned, httpCallVars, notThreadVars>>

\* the membership test came out false
CleanupGoesOn ==
    \E t \in Threads :
        /\ Goes(t, "check", "add")
        /\ ~debug_cleaned
        /\ UNCHANGED <<t_retries, t_session, sessions, session_lock, created, prunes,
                       debug_cleaned, httpCallVars, notThreadVars>>

\* _DEBUG_CLEANED_DIRS.add(base_dir); base_dir is a directory (out_dir was just
\* made under it), so the walk over its day directories begins
CleanupAdds ==
    \E t \in Threads :
        /\ Goes(t, "add", "prune")
        /\ debug_cleaned' = TRUE
        /\ prunes' = prunes + 1
        /\ UNCHANGED <<t_retries, t_session, sessions, session_lock, created, httpCallVars,
                       notThreadVars>>

\* the walk is through; the dump is written
CleanupEnds ==
    \E t \in Threads :
        /\ Goes(t, "prune", "done")
        /\ UNCHANGED <<t_retries, t_session, sessions, session_lock, created, prunes,
                       debug_cleaned, httpCallVars, notThreadVars>>

\* request_with_retry returns to the worker
ThreadReturns ==
    \E t \in Threads :
        /\ Goes(t, "done", "idle")
        /\ UNCHANGED <<t_retries, t_session, sessions, session_lock, created, prunes,
                       debug_cleaned, httpCallVars, notThreadVars>>

\* SpecThreads: a fresh process whose threads call request_with_retry again and again
InitThreads ==
    /\ cfg \in {c \in Configs : /\ c.tier = BreakerTiers
                                 /\ c.enabled = [s \in Sources |-> TRUE]
                                 /\ c.health_enabled
                                 /\ c.zero_threshold = DefaultZeroThreshold}
    /\ InitRun
    /\ InitDetailOff
    /\ InitNormOff
    /\ InitDedupOff
    /\ InitNetOff
    /\ InitFetchOff
    /\ InitMoreOff

NextThreads ==
    \/ ThreadCalls
    \/ AcquireLock
    \/ GetExisting
    \/ GetMissing
    \/ StoreSession
    \/ RequestEnds
    \/ RequestFails
    \/ CleanupReturns
    \/ CleanupGoesOn
    \/ CleanupAdds
    \/ CleanupEnds
    \/ ThreadReturns

SpecThreads == InitThreads /\ [][NextThreads]_vars

(***************************************************************************)
(* C28: one pooled session per retry budget.  However the concurrent       *)
(* request_with_retry calls interleave, at most one Session is ever        *)
(* constructed for a clamped retry count max(0, retries), and every call   *)
(* with that retry count sends its request through that Session.           *)
(***************************************************************************)

OneSessionPerBudget ==
    /\ \A k \in DOMAIN created : Cardinality(created[k]) <= 1
    /\ \A t \in Threads :
        t_pc[t] \in {"request", "check", "add", "prune", "done"} =>
            /\ t_session[t] # 0
            /\ created[SessionKey(t)] = {t_session[t]}

\* two threads with the budgets -1 and 0 are sending through the one Session of
\* key 0 while a Session of another key exists as well
OneSessionPerBudgetWitness ==
    /\ t_pc[1] = "request"
    /\ t_pc[2] = "request"
    /\ t_retries[1] = -1
    /\ t_retries[2] = 0
    /\ t_session[1] = t_session[2]
    /\ created[1] # {}

(***************************************************************************)
(* C29: the pruning of a debug root runs at most once in the lifetime of   *)
(* the process, however the concurrent failing requests interleave.        *)
(***************************************************************************)

PrunedAtMostOnce == prunes <= 1

\* what does hold: a thread whose membership test found the root in the set
\* does not prune, so the walk is begun at most once per thread that was at
\* the test while the root was still missing from the set
PrunedOncePerRacingThread == prunes <= MaxThreads

-----------------------------------------------------------------------------
(* fetch_list of src/crawlers/catch.py: the chain of breezyhr without a breaker *)

\* fetch_list of catch begins: the options are read
CatchStart ==
    /\ f_pc = "idle"
    /\ f_source' = "catch"
    /\ f_loaded' = NoFile
    /\ circuit_open' = FALSE
    /\ f_pc' = "playwright"
    /\ render_enabled' \in BOOLEAN
    /\ f_urls' = FALSE
    /\ dns_failed' = FALSE
    /\ f_tried' = <<>>
    /\ UNCHANGED <<today, breaker_file, notFetchVars>>

\* catch 1) Playwright first: if render["enabled"]
CatchPlaywright ==
    /\ f_pc = "playwright"
    /\ f_source = "catch"
    /\ f_pc' = "http"
    /\ IF render_enabled
       THEN /\ f_urls' \in BOOLEAN
            /\ dns_failed' \in BOOLEAN
            /\ Tries("playwright")
       ELSE UNCHANGED <<f_urls, dns_failed, f_tried>>
    /\ UNCHANGED <<today, breaker_file, f_source, f_loaded, render_enabled, circuit_open, notFetchVars>>

\* a direct request made whatever Playwright found
CatchHttpRunsAnyway == ~dns_failed

\* catch: if not urls and not dns_failed, before the direct request
CatchHttpRuns == ~f_urls /\ ~dns_failed

\* catch 2) HTTP fallback
CatchHttp ==
    /\ f_pc = "http"
    /\ f_source = "catch"
    /\ f_pc' = "search"
    /\ IF CatchHttpRuns
       THEN /\ Tries("http")
            /\ \E got \in HttpResults :
                f_urls' \in {found \in BOOLEAN : found => got = "response"}
       ELSE UNCHANGED <<f_urls, f_tried>>
    /\ UNCHANGED <<today, breaker_file, f_source, f_loaded, render_enabled, circuit_open, dns_failed,
                   notFetchVars>>

\* catch 3) search engine fallback: if not urls
CatchSearch ==
    /\ f_pc = "search"
    /\ f_source = "catch"
    /\ f_pc' = "return"
    /\ IF ~f_urls
       THEN f_urls' \in BOOLEAN /\ Tries("search")
       ELSE UNCHANGED <<f_urls, f_tried>>
    /\ UNCHANGED <<today, breaker_file, f_source, f_loaded, render_enabled, circuit_open, dns_failed,
                   notFetchVars>>

\* SpecChain: runs of the three crawlers, one after the other, over the days
NextChain ==
    \/ NextFetch
    \/ CatchStart
    \/ CatchPlaywright
    \/ CatchHttp
    \/ CatchSearch

SpecChain == InitFetch /\ [][NextChain]_vars

(***************************************************************************)
(* C30: the fallback chain with early exit.  Within one fetch_list run of  *)
(* breezyhr, catch or linkareer the strategies gone into follow the fixed  *)
(* order of the crawler (breezyhr and catch: Playwright, direct HTTP,      *)
(* search; linkareer: search, Playwright, direct HTTP); a strategy is      *)
(* gone into only while no earlier one has found URLs; and once a strategy *)
(* has found URLs the run goes into no further one.                        *)
(***************************************************************************)

\* the fixed order of crawler s
ChainOrder(s) ==
    IF s = "linkareer" THEN <<"search", "playwright", "http">>
    ELSE <<"playwright", "http", "search">>

\* the place of a strategy in the order of crawler s
Place(s, strategy) == CHOOSE i \in 1..3 : ChainOrder(s)[i] = strategy

\* the strategies gone into so far stand in the order of the crawler, none twice
InChainOrder ==
    \A i, j \in DOMAIN f_tried :
        i < j => Place(f_source, f_tried[i]) < Place(f_source, f_tried[j])

\* a step of a run that goes into a strategy
GoesIntoStrategy == Len(f_tried') > Len(f_tried)

\* a strategy is gone into only with urls still empty, and urls found in a run
\* stay found to its end
EarlyExit ==
    /\ GoesIntoStrategy => ~f_urls
    /\ (f_urls /\ f_pc # "idle") => (f_urls' /\ f_tried' = f_tried)

FallbackChain == []InChainOrder /\ [][EarlyExit]_vars

\* a catch run went through all three strategies and the last one found URLs
FallbackChainWitness ==
    /\ f_source = "catch"
    /\ f_pc = "return"
    /\ f_tried = <<"playwright", "http", "search">>
    /\ f_urls

\* a linkareer run left after its first strategy, with rendering on and the
\* circuit closed
LeftAfterSearch ==
    /\ f_source = "linkareer"
    /\ f_pc = "return"
    /\ f_tried = <<"search">>
    /\ f_urls
    /\ render_enabled
    /\ ~circuit_open

\* a breezyhr run left after direct HTTP
LeftAfterHttp ==
    /\ f_source = "breezyhr"
    /\ f_pc = "return"
    /\ f_tried = <<"playwright", "http">>
    /\ f_urls

(***************************************************************************)
(* C31: independent transient counters.  On a record of linkareer that is  *)
(* of today, _mark_504_failure and _reset_504_failure leave                *)
(* consecutive_dns as it is, and _mark_dns_failure and _reset_dns_failure  *)
(* leave consecutive_504 as it is; on a record of another day (or no       *)
(* record) each of the four starts both counters from 0.  Stated of the    *)
(* four functions on every file a run can find, and of the steps of        *)
(* fetch_list that call one of them.                                       *)
(***************************************************************************)

\* the breaker file of linkareer
LaFile == breaker_file["linkareer"]

\* the counter key as a file holds it
Count(file, key) == Get(LoadBreaker(file), key, 0)

\* the file holds a record of today
OfToday(file) == Get(LoadBreaker(file), "day", NoDay) = today

\* the four functions applied to the file as it is now
After504Mark == MarkFailure("linkareer", "consecutive_504", LaFile, today)

After504Reset == Reset504(LaFile, today)

AfterDnsMark == MarkFailure("linkareer", "consecutive_dns", LaFile, today)

AfterDnsReset == ResetDns("linkareer", LaFile, today)

\* on a record of today each function leaves the counter of the other class
SameDayFrame ==
    OfToday(LaFile) =>
        /\ Count(After504Mark, "consecutive_dns") = Count(LaFile, "consecutive_dns")
        /\ Count(After504Mark, "consecutive_504") = Count(LaFile, "consecutive_504") + 1
        /\ Count(After504Reset, "consecutive_dns") = Count(LaFile, "consecutive_dns")
        /\ Count(After504Reset, "consecutive_504") = 0
        /\ Count(AfterDnsMark, "consecutive_504") = Count(LaFile, "consecutive_504")
        /\ Count(AfterDnsMark, "consecutive_dns") = Count(LaFile, "consecutive_dns") + 1
        /\ Count(AfterDnsReset, "consecutive_504") = Count(LaFile, "consecutive_504")
        /\ Count(AfterDnsReset, "consecutive_dns") = 0

\* on a record of another day, or none, both counters start from 0
DayChangeZeroesBoth ==
    ~OfToday(LaFile) =>
        /\ Count(After504Mark, "consecutive_dns") = 0
        /\ Count(After504Mark, "consecutive_504") = 1
        /\ Count(AfterDnsMark, "consecutive_504") = 0
        /\ Count(AfterDnsMark, "consecutive_dns") = 1
        /\ Count(After504Reset, "consecutive_504") = 0
        /\ Count(After504Reset, "consecutive_dns") = 0
        /\ Count(AfterDnsReset, "consecutive_504") = 0
        /\ Count(AfterDnsReset, "consecutive_dns") = 0
        /\ OfToday(After504Mark) /\ OfToday(AfterDnsMark)
        /\ OfToday(After504Reset) /\ OfToday(AfterDnsReset)

\* a step of a linkareer run on a record of today: a counter that goes up
\* leaves the other, and the Playwright strategy, which marks and resets DNS
\* only, leaves the 504 counter
CounterStepFrame ==
    (f_source = "linkareer" /\ OfToday(LaFile) /\ today' = today) =>
        /\ Count(LaFile', "consecutive_504") > Count(LaFile, "consecutive_504")
               => Count(LaFile', "consecutive_dns") = Count(LaFile, "consecutive_dns")
        /\ Count(LaFile', "consecutive_dns") > Count(LaFile, "consecutive_dns")
               => Count(LaFile', "consecutive_504") = Count(LaFile, "consecutive_504")
        /\ f_pc = "playwright"
               => Count(LaFile', "consecutive_504") = Count(LaFile, "consecutive_504")

IndependentCounters ==
    /\ [](SameDayFrame /\ DayChangeZeroesBoth)
    /\ [][CounterStepFrame]_vars

\* Playwright found URLs, so the DNS counter was reset, on a record of today
\* whose 504 counter stands at 1 after it
IndependentCountersWitness ==
    /\ f_source = "linkareer"
    /\ f_pc = "http"
    /\ f_tried = <<"search", "playwright">>
    /\ f_urls
    /\ OfToday(LaFile)
    /\ Count(LaFile, "consecutive_504") = 1
    /\ Count(LaFile, "consecutive_dns") = 0

\* a 504 was marked on a record of today whose DNS counter stands at 1
Marked504BesideDns ==
    /\ f_source = "linkareer"
    /\ f_pc = "return"
    /\ OfToday(LaFile)
    /\ Count(LaFile, "consecutive_504") = 1
    /\ Count(LaFile, "consecutive_dns") = 1
    /\ f_tried = <<"search", "http">>

-----------------------------------------------------------------------------
(* deduplicate_jobs on Postings that meet on one rule at a time *)

Beta == <<"b", "e", "t", "a">>

Gamma == <<"g", "a", "m", "m", "a">>

\* Postings for the rules of the ladder one by one: a url that _canonical_url
\* rewrites, a url whose canonical form is empty, one title at two companies, empty
\* descriptions under different urls, titles and companies, a Posting that meets a
\* second on the url and a third on title and company, a url _canonical_url raises on
RulePool ==
    { Posting("a", HttpX \o <<"/", "q", "?", "b", "=", "1", "&", "a", "=", "2">>,
              TitleRobot1, Acme, Seoul, <<"d", "1", " ", "x">>),
      Posting("b", <<";", "p">>, TitleRobot1, Beta, Busan, <<>>),
      Posting("b", HttpX \o <<"/", "c">>, <<"m", "n", " ", "o", "p">>, Gamma,
              DefaultLocation, <<>>),
      Posting("c", HttpX \o <<"/", "q", "?", "a", "=", "2", "&", "b", "=", "1">>,
              <<"m", "n", " ", "o", "p">>, Gamma, <<"j", "e", "j", "u">>, <<"d", "5">>),
      Posting("c", <<"/", "/", "[", "x">>, <<"y", "z">>, DefaultCompany, DefaultLocation,
              <<"d", "6">>) }

\* SpecRules: one call of deduplicate_jobs on Postings of RulePool
InitRules ==
    /\ cfg \in {c \in Configs : /\ c.tier = BreakerTiers
                                 /\ c.enabled = [s \in Sources |-> TRUE]
                                 /\ c.health_enabled
                                 /\ c.zero_threshold = DefaultZeroThreshold}
    /\ InitRun
    /\ InitDetailOff
    /\ InitNormOff
    /\ dd_pc = "loop"
    /\ dedup_jobs \in SeqsUpTo(RulePool, MaxJobs)
    /\ dcfg \in DedupConfigs
    /\ DedupLocalsFresh
    /\ InitNetOff
    /\ InitFetchOff
    /\ InitMoreOff

NextRules ==
    \/ DedupStep
    \/ DedupRaises
    \/ DedupReturns

SpecRules == InitRules /\ [][NextRules]_vars

\* the jobs that got verdict 0, in the order of the input
RECURSIVE AcceptedOf(_, _)
AcceptedOf(jobs, vs) ==
    IF vs = <<>> THEN <<>>
    ELSE IF Head(vs) = 0 THEN <<Head(jobs)>> \o AcceptedOf(Tail(jobs), Tail(vs))
         ELSE AcceptedOf(Tail(jobs), Tail(vs))

\* the canonical form of the url if it is not empty, else the url
CarriedUrl(url) ==
    IF DedupCanonicalUrl(url).url # <<>> THEN DedupCanonicalUrl(url).url ELSE url

\* out is the input Posting in but for the url, which is the carried one
CarriesCanonical(out, in) ==
    /\ out.url = CarriedUrl(in.url)
    /\ SameExceptUrl(out, in)

\* the list built so far holds the accepted input Postings, each with its carried url
OutputCarriesCanonical ==
    dd_pc \in {"loop", "returned"} =>
        /\ Len(unique) = Len(AcceptedOf(dedup_jobs, verdicts))
        /\ \A i \in DOMAIN unique :
              CarriesCanonical(unique[i], AcceptedOf(dedup_jobs, verdicts)[i])

\* no step of deduplicate_jobs changes the list it was given
InputUnmodified == dedup_jobs' = dedup_jobs

\* C32: every Posting in the output of deduplicate_jobs has the canonical form of
\* its input url as url when that form is not empty and the input url otherwise,
\* its other fields are the input's, and the input list is left as it was.
AcceptedCarriesCanonicalUrl ==
    /\ []OutputCarriesCanonical
    /\ [][InputUnmodified]_vars

\* deduplicate_jobs returned a Posting whose url it rewrote and one that kept its
\* url because the canonical form is empty
AcceptedCarriesCanonicalUrlWitness ==
    /\ dd_pc = "returned"
    /\ \E i \in DOMAIN unique :
          /\ unique[i].url # AcceptedOf(dedup_jobs, verdicts)[i].url
          /\ unique[i].url # <<>>
    /\ \E i \in DOMAIN unique :
          /\ DedupCanonicalUrl(AcceptedOf(dedup_jobs, verdicts)[i].url).url = <<>>
          /\ unique[i].url = AcceptedOf(dedup_jobs, verdicts)[i].url
          /\ unique[i].url # <<>>

\* the normalized title of a Posting
TitleOf(job) == NormalizeText(job.title)

\* the later Posting meets the earlier one on an exact key or on the cross-source rule
ExactOrCrossMatch(kl, ke, earlier) ==
    \/ kl.url # <<>> /\ kl.url = ke.url
    \/ kl.tc_hash = ke.tc_hash
    \/ kl.desc_hash = ke.desc_hash
    \/ kl.cross_key = ke.cross_key
    \/ dcfg.cross_enabled
         /\ JaccardAtLeast(CurTokens(kl), XTokens(earlier), dcfg.cross_threshold)

\* with the rule on, no accepted Posting is similar in title to one accepted before
\* it, and no two accepted Postings have the same non-empty title
AcceptedTitlesApart ==
    (dd_pc \in {"loop", "returned"} /\ dcfg.sim_enabled) =>
        \A i, j \in DOMAIN unique :
            i < j => /\ ~IsSimilar(TitleOf(unique[j]), TitleOf(unique[i]), dcfg.sim_threshold)
                     /\ TitleOf(unique[i]) # <<>> => TitleOf(unique[i]) # TitleOf(unique[j])

\* with the rule off, no Posting is rejected for its title: a rejected Posting meets
\* an accepted earlier one on an exact key or on the cross-source rule
TitleAloneAccepted ==
    (dd_pc \in {"loop", "returned"} /\ ~dcfg.sim_enabled) =>
        \A j \in 1..job_idx :
            verdicts[j] # 0 =>
                \E i \in 1..(j - 1) :
                    /\ verdicts[i] = 0
                    /\ ExactOrCrossMatch(JobKeys(dedup_jobs[j]), JobKeys(dedup_jobs[i]),
                                         dedup_jobs[i])

\* C33: with title_similarity_enabled every accepted Posting has a normalized-title
\* similarity below the threshold against every Posting accepted before it, whatever
\* the company, location or url, so the output never holds two Postings with the same
\* non-empty normalized title; with the rule off a Posting is rejected only on an
\* exact key or on the cross-source rule.
TitleSimilarityRule ==
    /\ AcceptedTitlesApart
    /\ TitleAloneAccepted

\* the second Posting has the title of the first and another company, location, url
\* and description, and the title rule rejected it
TitleSimilarityRuleWitness ==
    /\ dd_pc = "returned"
    /\ dcfg.sim_enabled
    /\ Len(dedup_jobs) = 2
    /\ verdicts = <<0, 5>>
    /\ TitleOf(dedup_jobs[1]) = TitleOf(dedup_jobs[2])
    /\ NormalizeCompany(dedup_jobs[1].company) # NormalizeCompany(dedup_jobs[2].company)
    /\ dedup_jobs[1].location # dedup_jobs[2].location
    /\ dedup_jobs[1].url # dedup_jobs[2].url

\* the rule is off and the output holds two Postings with one title
SameTitleTwiceAccepted ==
    /\ dd_pc = "returned"
    /\ ~dcfg.sim_enabled
    /\ Len(unique) = 2
    /\ TitleOf(unique[1]) = TitleOf(unique[2])
    /\ TitleOf(unique[1]) # <<>>

\* the keys of the input Postings accepted so far
AcceptedKeys == {JobKeys(dedup_jobs[j]) : j \in {i \in 1..job_idx : verdicts[i] = 0}}

\* the four sets hold the keys of the accepted Postings and nothing else
SeenAreAcceptedKeys ==
    dd_pc \in {"loop", "returned"} =>
        /\ seen_urls = {k.url : k \in AcceptedKeys} \ {<<>>}
        /\ seen_title_company = {k.tc_hash : k \in AcceptedKeys}
        /\ seen_desc = {k.desc_hash : k \in AcceptedKeys}
        /\ canonical_keys = {k.cross_key : k \in AcceptedKeys}

\* the accepted Postings before position j that the Posting at j matches
AcceptedMatches(j) ==
    {i \in 1..(j - 1) : verdicts[i] = 0 /\ Matches(dedup_jobs[j], dedup_jobs[i])}

\* a Posting is rejected if and only if it matches an accepted Posting before it
RejectedMatchAccepted ==
    dd_pc \in {"loop", "returned"} =>
        \A j \in 1..job_idx : verdicts[j] # 0 <=> AcceptedMatches(j) # {}

\* C34: after any prefix of the input the seen url, title+company, description and
\* coarse-key sets are exactly the keys of the Postings accepted so far; every
\* rejected Posting matches, on one of the six rules, an accepted Posting before
\* it, and a Posting that matches only rejected Postings is accepted.
OnlyAcceptedContribute ==
    /\ SeenAreAcceptedKeys
    /\ RejectedMatchAccepted

\* the second Posting was rejected, the third matches the second and not the
\* first, and was accepted
OnlyAcceptedContributeWitness ==
    /\ dd_pc = "returned"
    /\ Len(dedup_jobs) = 3
    /\ verdicts = <<0, 1, 0>>
    /\ Matches(dedup_jobs[3], dedup_jobs[2])
    /\ ~Matches(dedup_jobs[3], dedup_jobs[1])

\* the Posting has no description once normalized
NoDescription(job) == NormalizeText(job.description) = <<>>

\* C35: the description fingerprint is computed for every Posting, those with an
\* empty normalized description included, so the output of deduplicate_jobs holds
\* at most one Posting whose normalized description is empty.
EmptyDescriptionsCollide ==
    dd_pc \in {"loop", "returned"} =>
        Cardinality({i \in DOMAIN unique : NoDescription(unique[i])}) <= 1

\* two Postings without description and with different urls, titles and companies,
\* both fuzzy rules off: the second was rejected on the description fingerprint
EmptyDescriptionsCollideWitness ==
    /\ dd_pc = "returned"
    /\ ~dcfg.sim_enabled
    /\ ~dcfg.cross_enabled
    /\ Len(dedup_jobs) = 2
    /\ NoDescription(dedup_jobs[1])
    /\ NoDescription(dedup_jobs[2])
    /\ JobKeys(dedup_jobs[1]).url # JobKeys(dedup_jobs[2]).url
    /\ TitleOf(dedup_jobs[1]) # TitleOf(dedup_jobs[2])
    /\ NormalizeCompany(dedup_jobs[1].company) # NormalizeCompany(dedup_jobs[2].company)
    /\ verdicts = <<0, 3>>
    /\ Len(unique) = 1

-----------------------------------------------------------------------------
(* deduplicate_jobs on its own output *)

\* Postings whose url _canonical_url shortens once and then once more (the url
\* canonical_url makes of "http://x/a;/;/"), shortens once, rewrites to a fixed
\* form, and raises on
AgainPool ==
    { Posting("a", HttpX \o <<"/", "a", ";", "/", ";">>, TitleRobot1, Acme, Seoul,
              <<"d", "1", " ", "x">>),
      Posting("b", HttpX \o <<"/", "a", ";">>, <<"m", "n", " ", "o", "p">>, Beta, Busan,
              <<"d", "2">>),
      Posting("b", HttpX \o <<"/", "q", "?", "b", "=", "1", "&", "a", "=", "2">>,
              <<"q", "r", " ", "s", "t">>, Gamma, DefaultLocation, <<"d", "3">>),
      Posting("c", <<"/", "/", "[", "x">>, <<"y", "z">>, DefaultCompany, DefaultLocation,
              <<"d", "4">>) }

\* SpecAgain: one call of deduplicate_jobs on Postings of AgainPool
InitAgain ==
    /\ cfg \in {c \in Configs : /\ c.tier = BreakerTiers
                                 /\ c.enabled = [s \in Sources |-> TRUE]
                                 /\ c.health_enabled
                                 /\ c.zero_threshold = DefaultZeroThreshold}
    /\ InitRun
    /\ InitDetailOff
    /\ InitNormOff
    /\ dd_pc = "loop"
    /\ dedup_jobs \in SeqsUpTo(AgainPool, MaxJobs)
    /\ dcfg \in DedupConfigs
    /\ DedupLocalsFresh
    /\ InitNetOff
    /\ InitFetchOff
    /\ InitMoreOff

NextAgain ==
    \/ DedupStep
    \/ DedupRaises
    \/ DedupReturns

SpecAgain == InitAgain /\ [][NextAgain]_vars

\* deduplicate_jobs(unique, dcfg): the call on the list the first call returned
SecondCall == DedupRun(unique, dcfg)

\* C36: deduplicate_jobs is idempotent: for every input list and config,
\* deduplicate_jobs(deduplicate_jobs(jobs)) returns the list that
\* deduplicate_jobs(jobs) returns.
DedupIdempotent ==
    dd_pc = "returned" => /\ SecondCall.ok
                          /\ SecondCall.unique = unique

\* the url of every Posting of the list is its own carried url
UrlsSettled == \A i \in DOMAIN unique : CarriedUrl(unique[i].url) = unique[i].url

\* on a list whose urls are settled the second call returns the list
IdempotentOnceSettled ==
    (dd_pc = "returned" /\ UrlsSettled) => /\ SecondCall.ok
                                           /\ SecondCall.unique = unique

\* the second call returns a list, and it is the first call's list again
SecondCallSame ==
    /\ dd_pc = "returned"
    /\ Len(unique) >= 2
    /\ UrlsSettled
    /\ SecondCall.unique = unique

\* the second call returns fewer Postings than the first
SecondCallShorter ==
    /\ dd_pc = "returned"
    /\ SecondCall.ok
    /\ Len(SecondCall.unique) < Len(unique)

-----------------------------------------------------------------------------
(* The zero-yield counter over many runs *)

\* the consecutive_zero of every source in the file is between 0 and the threshold
CounterWithinThreshold ==
    \A s \in Sources : ConsecutiveZero(health_file, s) \in 0..cfg.zero_threshold

\* the same of the dict a run holds in memory
LoadedWithinThreshold ==
    \A s \in Sources : ConsecutiveZero(source_health, s) \in 0..cfg.zero_threshold

\* the file has the source at the threshold
AtThreshold(s) == ConsecutiveZero(health_file, s) = cfg.zero_threshold

\* a run that found a source at the threshold does not attempt it and holds its
\* record as loaded
AtThresholdUntouched ==
    \A s \in Sources :
        (InRun /\ ConsecutiveZero(start_file, s) = cfg.zero_threshold) =>
            /\ s \notin AttemptedSources
            /\ s \notin called
            /\ source_health[s] = start_file[s]

\* no step changes the record in the file of a source at the threshold
AtThresholdFrozen == \A s \in Sources : AtThreshold(s) => health_file'[s] = health_file[s]

\* C37: from an empty history and with a fixed threshold T >= 1, after any sequence
\* of runs the persisted consecutive_zero of every source is between 0 and T, and
\* once it is T no later run changes the health record of that source.
ZeroCounterBound ==
    /\ [](CounterWithinThreshold /\ LoadedWithinThreshold /\ AtThresholdUntouched)
    /\ [][AtThresholdFrozen]_vars

\* a run that found one source at the threshold has saved the file, with the record
\* of another source changed and the record of that source as it was
ZeroCounterBoundWitness ==
    /\ pc = "done"
    /\ cfg.health_enabled
    /\ \E s \in Sources :
          /\ cfg.enabled[s]
          /\ ConsecutiveZero(start_file, s) = cfg.zero_threshold
          /\ health_file[s] = start_file[s]
    /\ \E s \in Sources : health_file[s] # start_file[s]

-----------------------------------------------------------------------------
(* run_crawlers and the records of the sources it does not attempt *)

\* source c has no entry under cfg["crawlers"]
TiersWithoutC == [a |-> NoTier, b |-> 1, c |-> NoOpts]

\* a file the program or an operator wrote: per source no record or a count
FrameEntries == {NoEntry, 0, 1}

\* SpecFrame: runs with the lowest threshold over a file that may hold records of
\* sources that are disabled, at the threshold, or not configured
InitFrame ==
    /\ cfg \in [tier : {BreakerTiers, TiersWithoutC},
                enabled : {e \in [Sources -> BOOLEAN] : e["b"]},
                health_enabled : BOOLEAN,
                zero_threshold : {1}]
    /\ \/ health_disk = "missing" /\ health_file = EmptyHealth
       \/ health_disk = "object" /\ health_file \in [Sources -> FrameEntries]
    /\ InitRunLocals
    /\ InitDetailOff
    /\ InitNormOff
    /\ InitDedupOff
    /\ InitNetOff
    /\ InitFetchOff
    /\ InitMoreOff

SpecFrame == InitFrame /\ [][Next]_vars

\* the source ids with a dict under cfg["crawlers"]
ConfiguredSources == {Configured[i] : i \in DOMAIN Configured}

\* the run passes the source by: it is not configured, disabled, or at the threshold
NotAttempted(s) == s \notin AttemptedSources

\* a step leaves the record in the file of every source the run did not attempt
UnattemptedFrame == \A s \in Sources : NotAttempted(s) => health_file'[s] = health_file[s]

\* during a run, the dict in memory holds the loaded record of every source not
\* attempted, and no source without opts, no disabled source and no source at the
\* threshold is attempted
UnattemptedAsLoaded ==
    InRun =>
        \A s \in Sources :
            /\ (cfg.health_enabled /\ NotAttempted(s)) => source_health[s] = start_file[s]
            /\ (\/ s \notin ConfiguredSources
                \/ ~cfg.enabled[s]
                \/ cfg.health_enabled /\ ConsecutiveZero(start_file, s) >= cfg.zero_threshold)
                   => NotAttempted(s) /\ s \notin called

\* with source_health.enabled false the run holds no record of the file, and when
\* it is over every configured and enabled source was attempted
DisabledTrackingReadsNothing ==
    ~cfg.health_enabled =>
        /\ source_health = EmptyHealth
        /\ pc = "done" =>
               \A s \in ConfiguredSources : cfg.enabled[s] => s \in AttemptedSources

\* with source_health.enabled false no step writes the file
DisabledTrackingWritesNothing ==
    ~cfg.health_enabled => /\ health_file' = health_file
                           /\ health_disk' = health_disk

\* C38: a run of run_crawlers leaves the persisted health record of every source
\* it does not attempt as it was (disabled sources, sources skipped by the
\* breaker, source ids of the file that the configuration lacks); with
\* source_health.enabled false the file is neither read nor written and no source
\* is skipped by the breaker.
HealthStateFrame ==
    /\ [](UnattemptedAsLoaded /\ DisabledTrackingReadsNothing)
    /\ [][UnattemptedFrame /\ DisabledTrackingWritesNothing]_vars

\* a run has saved the file: the record of b changed, a is enabled and was passed
\* by at the threshold, c has a record and no entry in the configuration, and
\* both records are as they were
HealthStateFrameWitness ==
    /\ pc = "done"
    /\ cfg.health_enabled
    /\ cfg.tier["c"] = NoOpts
    /\ cfg.enabled["a"]
    /\ start_file["a"] = 1
    /\ start_file["c"] = 0
    /\ health_file["a"] = 1
    /\ health_file["c"] = 0
    /\ AttemptedSources = {"b"}
    /\ health_file["b"] # start_file["b"]

\* the same with a disabled source that has a record
DisabledSourceKept ==
    /\ pc = "done"
    /\ cfg.health_enabled
    /\ ~cfg.enabled["a"]
    /\ start_file["a"] = 0
    /\ health_file["a"] = 0
    /\ health_file["b"] # start_file["b"]

\* tracking is off, the file says a is at the threshold, and a was attempted
TrackingOffNothingSkipped ==
    /\ pc = "done"
    /\ ~cfg.health_enabled
    /\ health_file["a"] = 1
    /\ health_file = start_file
    /\ "a" \in AttemptedSources

-----------------------------------------------------------------------------
(* The transient-failure counters within one run of fetch_list *)

\* the breaker file of the crawler that is running
RunFile == breaker_file[f_source]

CounterKeys == {"consecutive_dns", "consecutive_504"}

\* a run of linkareer or breezyhr is under way
BreakerRun == f_pc # "idle" /\ f_source \in BreakerSources

\* no counter stands more than 1 above what the run found in the file
AtMostOneIncrement ==
    BreakerRun => \A key \in CounterKeys : Count(RunFile, key) <= Count(f_loaded, key) + 1

\* of the two counters of linkareer at most one stands above what the run found
OneCounterPerRun ==
    BreakerRun => \E key \in CounterKeys : Count(RunFile, key) <= Count(f_loaded, key)

\* the circuit of the running crawler, as the next run would find it today
OpenNow ==
    IF f_source = "linkareer" THEN IsCircuitOpen(LoadBreaker(RunFile), today)
    ELSE IsDnsCircuitOpen(LoadBreaker(RunFile), today)

\* a run that found the circuit closed leaves it open only if the file it found
\* held a failure of today already
OpensOnSecondFailure ==
    (BreakerRun /\ ~circuit_open /\ OpenNow) =>
        /\ OfToday(f_loaded)
        /\ \E key \in CounterKeys : Count(f_loaded, key) >= 1

\* a step of a run raises a counter only in the Playwright or the direct strategy,
\* gone into at that step with no url found before or by it; after a DNS failure of
\* Playwright the direct strategy is not gone into
CounterTouchedOnlyByFailure ==
    (f_source \in BreakerSources /\ f_pc # "idle") =>
        /\ breaker_file' # breaker_file =>
               /\ f_pc \in {"playwright", "http"}
               /\ GoesIntoStrategy
               /\ ~f_urls
        /\ (\E key \in CounterKeys : Count(RunFile', key) > Count(RunFile, key)) => ~f_urls'
        /\ (f_pc = "http" /\ dns_failed) => ~GoesIntoStrategy

\* C39: within one fetch_list run of linkareer or breezyhr each of consecutive_dns
\* and consecutive_504 increases by at most 1 (a DNS failure seen by Playwright
\* keeps the direct strategy from running; a strategy that is skipped, or a search
\* that finds urls, touches no counter), so a circuit opens only on a failure in a
\* run that follows a run with a failure on the same day.
OneIncrementPerRun ==
    /\ [](AtMostOneIncrement /\ OneCounterPerRun /\ OpensOnSecondFailure)
    /\ [][CounterTouchedOnlyByFailure]_vars

\* a linkareer run that found a DNS failure of today in the file and the circuit
\* closed has marked a second one in Playwright, has passed the direct strategy by
\* and leaves the circuit open
OneIncrementPerRunWitness ==
    /\ f_source = "linkareer"
    /\ f_pc = "return"
    /\ ~circuit_open
    /\ f_tried = <<"search", "playwright">>
    /\ dns_failed
    /\ ~f_urls
    /\ OfToday(f_loaded)
    /\ Count(f_loaded, "consecutive_dns") = 1
    /\ Count(RunFile, "consecutive_dns") = BREAKER_DNS_THRESHOLD
    /\ OpenNow

\* a breezyhr run has marked a DNS failure in the direct strategy
BzMarkedInHttp ==
    /\ f_source = "breezyhr"
    /\ f_pc = "return"
    /\ f_tried = <<"playwright", "http", "search">>
    /\ Count(RunFile, "consecutive_dns") = Count(f_loaded, "consecutive_dns") + 1
    /\ OfToday(f_loaded)

====
